---- MODULE Spec2Model ----
(***************************************************************************)
(* State-machine model of the license bot's entitlement engine:            *)
(*   database.py  - the licenses / purchases / shopify_notifications       *)
(*                  tables and the statements run against them             *)
(*   api.py       - the /verify handler and the notification endpoints     *)
(*   bot.py       - the /redeem and /exchange flows, the expiry sweep and  *)
(*                  the notification poller                                *)
(* Every handler is cut at its await points: one action per statement that *)
(* reaches the database, so that handlers interleave as coroutines do.     *)
(* Time is a discrete clock `now` (datetime.utcnow()); a duration is a     *)
(* whole number of clock ticks (the resolution of timedelta).              *)
(***************************************************************************)
EXTENDS Integers, Sequences, FiniteSets, TLC

VARIABLES
    now,        \* datetime.utcnow()
    licenses,   \* table licenses: license_key -> row
    ext,        \* in-flight extend_license calls (the /extend command)
    ver,        \* in-flight GET /verify requests
    firstBind,  \* history: per key, the hwid of the first completed bind since the last reset
    purchases,  \* table purchases: id -> row
    red,        \* in-flight /redeem commands
    exch,       \* /exchange dialogs of one user
    stat,       \* the in-flight get_license_stats call
    notifs,     \* table shopify_notifications: id -> row
    poll,       \* the notification poller's cycle
    sweep,      \* the expiry sweep's cycle
    tok,        \* the last license_crypto call: the token issued and its verification
    gen,        \* the last add_license call and its return value
    dup,        \* the last cleanup_duplicate_licenses call and its report
    auth,       \* in-flight POST /auth/discord requests
    orders,     \* table pending_orders: id -> row
    link,       \* in-flight /link commands and OAuth callbacks
    cmd,        \* the last /revoke or /reset-hwid command and its reply
    referrals,  \* table referrals: the set of its rows
    ref,        \* in-flight /referral commands
    awards      \* history: the referral extensions made, per pair and per user

vars == <<now, licenses, ext, ver, firstBind, purchases, red, exch, stat, notifs, poll, sweep,
          tok, gen, dup, auth, orders, link, cmd, referrals, ref, awards>>

-----------------------------------------------------------------------------
(* Bounds of the model *)

MaxTime == 2
MaxExpiry == 5

-----------------------------------------------------------------------------
(* Values *)

Keys == {"SAINT-k1", "SAINT-k2", "SAINT-k3"}
Owners == {"u1", "u2"}
Products == {"saints-shot", "saintx"}
Hwids == {"A", "B"}
NULL == "NULL"

Max(a, b) == IF a >= b THEN a ELSE b

\* A row as INSERT INTO licenses leaves it: the column defaults of the table.
\* pending_days 0 stands for SQL NULL; hook_calls is history (the number of
\* times the expiry sweep ran its role-removal block for the row).
NewRow(discord_id, product, expires_at, pending_days) ==
    [discord_id |-> discord_id, product |-> product, expires_at |-> expires_at,
     revoked |-> 0, hwid |-> NULL, expiry_notified |-> 0,
     pending_days |-> pending_days, hook_calls |-> 0]

-----------------------------------------------------------------------------
(* database.py: statements on the licenses table *)

\* INSERT INTO licenses: fails on the primary key (UniqueViolationError)
AddLicenseOk(L, key) == key \notin DOMAIN L

add_licenseUpsert(L, key, discord_id, expires_at, product, pending_days) ==
    [k \in DOMAIN L \cup {key} |->
        IF k = key THEN NewRow(discord_id, product, expires_at, pending_days) ELSE L[k]]

add_license(L, key, discord_id, expires_at, product, pending_days) ==
    IF AddLicenseOk(L, key)
    THEN [k \in DOMAIN L \cup {key} |->
            IF k = key THEN NewRow(discord_id, product, expires_at, pending_days) ELSE L[k]]
    ELSE L

\* UPDATE licenses SET revoked = 1 WHERE license_key = $1
revoke_license(L, key) ==
    [k \in DOMAIN L |-> IF k = key THEN [L[k] EXCEPT !.revoked = 1] ELSE L[k]]

\* DELETE FROM licenses WHERE license_key = $1
delete_license(L, key) == [k \in DOMAIN L \ {key} |-> L[k]]

\* SELECT ... WHERE discord_id = $1 AND revoked = 0 AND product = $2
\*   ORDER BY expires_at DESC LIMIT 1
\* The result is one of the rows with the greatest expires_at (a tie is broken
\* by the database); the empty set stands for None.
get_license_by_user(L, discord_id, product) ==
    LET cand == {k \in DOMAIN L : /\ L[k].discord_id = discord_id
                                  /\ L[k].revoked = 0
                                  /\ L[k].product = product}
    IN {k \in cand : \A j \in cand : L[j].expires_at <= L[k].expires_at}

\* extend_user_license_for_product's SELECT: no revoked filter
LatestForProduct(L, discord_id, product) ==
    LET cand == {k \in DOMAIN L : /\ L[k].discord_id = discord_id
                                  /\ L[k].product = product}
    IN {k \in cand : \A j \in cand : L[j].expires_at <= L[k].expires_at}

\* SELECT COUNT(*) ... WHERE discord_id AND product AND revoked = 0 AND expires_at > now
has_active_license_for_product(L, discord_id, product, t) ==
    \E k \in DOMAIN L : /\ L[k].discord_id = discord_id
                        /\ L[k].product = product
                        /\ L[k].revoked = 0
                        /\ L[k].expires_at > t

\* extend_license, lines 343-350: the base of the new expiry
NewExpiryNoFloor(current_expiry, t, days) == current_expiry + days

NewExpiry(current_expiry, t, days) ==
    IF days > 0
    THEN Max(current_expiry, t) + days
    ELSE current_expiry + days

ExtendUpdateKeepRevoked(L, key, new_expiry) ==
    [k \in DOMAIN L |->
        IF k = key THEN [L[k] EXCEPT !.expires_at = new_expiry] ELSE L[k]]

\* extend_license, lines 352-355: UPDATE licenses SET expires_at = $1, revoked = 0
ExtendUpdate(L, key, new_expiry) ==
    [k \in DOMAIN L |->
        IF k = key THEN [L[k] EXCEPT !.expires_at = new_expiry, !.revoked = 0] ELSE L[k]]

-----------------------------------------------------------------------------
(* The clock and the single-statement store operations *)

Tick ==
    /\ now < MaxTime
    /\ now' = now + 1
    /\ UNCHANGED <<licenses, ext, ver, firstBind, purchases, red, exch, stat, notifs, poll, sweep, tok, gen, dup, auth, orders, link, cmd, referrals, ref, awards>>

GrantDays == {1, 2}

\* add_license called with a generated key (any key: a collision is reported)
AddLicense(key, owner, product, days) ==
    /\ licenses' = add_license(licenses, key, owner, now + days, product, 0)
    /\ firstBind' = IF AddLicenseOk(licenses, key)
                    THEN [firstBind EXCEPT ![key] = NULL] ELSE firstBind
    /\ UNCHANGED <<now, ext, ver, purchases, red, exch, stat, notifs, poll, sweep, tok, gen, dup, auth, orders, link, cmd, referrals, ref, awards>>

GenIdle == [key |-> NULL, ok |-> FALSE, calls |-> 0]

\* add_license and the value it returns; calls counts the calls modulo 2
CreateLicense(key, owner, product, days) ==
    /\ licenses' = add_license(licenses, key, owner, now + days, product, 0)
    /\ firstBind' = IF AddLicenseOk(licenses, key)
                    THEN [firstBind EXCEPT ![key] = NULL] ELSE firstBind
    /\ gen' = [key |-> key, ok |-> AddLicenseOk(licenses, key),
               calls |-> (gen.calls + 1) % 2]
    /\ UNCHANGED <<now, ext, ver, purchases, red, exch, stat, notifs, poll, sweep,
                   tok, dup, auth, orders, link, cmd, referrals, ref, awards>>

RevokeLicense(key) ==
    /\ key \in DOMAIN licenses
    /\ licenses[key].revoked = 0
    /\ licenses' = revoke_license(licenses, key)
    /\ UNCHANGED <<now, ext, ver, firstBind, purchases, red, exch, stat, notifs, poll, sweep, tok, gen, dup, auth, orders, link, cmd, referrals, ref, awards>>

DeleteLicense(key) ==
    /\ key \in DOMAIN licenses
    /\ licenses' = delete_license(licenses, key)
    /\ firstBind' = [firstBind EXCEPT ![key] = NULL]
    /\ UNCHANGED <<now, ext, ver, purchases, red, exch, stat, notifs, poll, sweep, tok, gen, dup, auth, orders, link, cmd, referrals, ref, awards>>

-----------------------------------------------------------------------------
(* extend_license as called by /extend key=... days=... *)

ExtIds == {1, 2}
Deltas == {-2, -1, 1, 2}

\* A call between its SELECT and its UPDATE holds the key, the days and the
\* new_expiry it computed (the value it returns).
ExtIdle == [pc |-> "idle", key |-> NULL, days |-> 0, result |-> 0]

\* lines 330-350: SELECT expires_at; return None when there is no row; else
\* compute new_expiry from the row read and utcnow()
ExtendRead(c, key, days) ==
    /\ ext[c].pc \in {"idle", "none"}
    /\ IF key \in DOMAIN licenses
       THEN /\ NewExpiry(licenses[key].expires_at, now, days) \in -MaxExpiry..MaxExpiry
            /\ ext' = [ext EXCEPT ![c] =
                  [pc |-> "update", key |-> key, days |-> days,
                   result |-> NewExpiry(licenses[key].expires_at, now, days)]]
       ELSE ext' = [ext EXCEPT ![c] =
                  [pc |-> "none", key |-> key, days |-> days, result |-> 0]]
    /\ UNCHANGED <<now, licenses, ver, firstBind, purchases, red, exch, stat, notifs, poll, sweep, tok, gen, dup, auth, orders, link, cmd, referrals, ref, awards>>

\* lines 352-356: UPDATE, then return new_expiry.isoformat()
ExtendWrite(c) ==
    /\ ext[c].pc = "update"
    /\ licenses' = ExtendUpdate(licenses, ext[c].key, ext[c].result)
    /\ ext' = [ext EXCEPT ![c] = ExtIdle]
    /\ UNCHANGED <<now, ver, firstBind, purchases, red, exch, stat, notifs, poll, sweep, tok, gen, dup, auth, orders, link, cmd, referrals, ref, awards>>

-----------------------------------------------------------------------------
(* api.py: GET /verify *)

reset_hwid_by_keyNoop(L, key) == L

\* UPDATE licenses SET hwid = NULL WHERE license_key = $1 (reset_hwid_by_key)
reset_hwid_by_key(L, key) ==
    [k \in DOMAIN L |-> IF k = key THEN [L[k] EXCEPT !.hwid = NULL] ELSE L[k]]

\* Client versions by rank: 0 no version sent (or unparsable), 1 below the
\* minimum of PRODUCT_VERSIONS, 2 the current version.
MinVersionOf(product) ==
    IF product \in {"saints-gen", "saints-shot"} THEN 2 ELSE 0

check_version_allowed(product, version) ==
    /\ version # 0
    /\ version >= MinVersionOf(product)

\* The product and version parameters a client sends
ClientParams == {<<NULL, 0>>, <<"saints-shot", 2>>, <<"saints-shot", 1>>, <<"saintx", 2>>}

\* A key that does not start with "SAINT-"
BadKey == "k0"
VerIds == {1, 2}
VerIdle == [pc |-> "idle", key |-> NULL, hwid |-> NULL, product |-> NULL, version |-> 0,
            db |-> "up", result |-> NULL, first |-> NULL]

\* lines 213-226: the binding decision on the row read
\*   "bind"  the UPDATE that binds is still to run
BindingOutcomeRebind(stored_hwid, hwid) ==
    IF hwid # NULL
    THEN IF stored_hwid # hwid THEN "bind" ELSE "active"
    ELSE "active"

BindingOutcome(stored_hwid, hwid) ==
    IF hwid # NULL
    THEN IF stored_hwid = NULL THEN "bind"
         ELSE IF stored_hwid # hwid THEN "hwid_mismatch" ELSE "active"
    ELSE "active"

VerifyOutcomeExpiredFirst(L, t, key, hwid, product, version) ==
    IF key = BadKey THEN "invalid_format"
    ELSE IF product # NULL /\ ~check_version_allowed(product, version) THEN "update_required"
    ELSE IF key \notin DOMAIN L THEN "not_found"
    ELSE IF L[key].expires_at < t THEN "expired"
    ELSE IF product # NULL /\ L[key].product # product THEN "wrong_product"
    ELSE IF L[key].revoked # 0 THEN "revoked"
    ELSE BindingOutcome(L[key].hwid, hwid)

\* lines 178-226: the checks in the order of the code, on the row fetched
VerifyOutcome(L, t, key, hwid, product, version) ==
    IF key = BadKey THEN "invalid_format"
    ELSE IF product # NULL /\ ~check_version_allowed(product, version) THEN "update_required"
    ELSE IF key \notin DOMAIN L THEN "not_found"
    ELSE IF product # NULL /\ L[key].product # product THEN "wrong_product"
    ELSE IF L[key].revoked # 0 THEN "revoked"
    ELSE IF L[key].expires_at < t THEN "expired"
    ELSE BindingOutcome(L[key].hwid, hwid)

OutcomeWithStoreClosed(outcome, db_ok) ==
    IF db_ok THEN outcome ELSE "not_found"

\* lines 187-193 and 255-273: a statement that raises (the datastore is
\* unavailable) ends the request in the except branch: valid, "db_error".
\* The format and version checks run before the datastore is used.
OutcomeWithStore(outcome, db_ok) ==
    IF outcome \in {"invalid_format", "update_required"} \/ db_ok THEN outcome ELSE "db_error"

\* The request up to the first UPDATE (or to its response when there is none).
\* db_ok: whether the datastore answers during this request.
\* first is history: the hwid of the first completed bind of the key.
VerifyRequest(c, key, hwid, product, version, db_ok) ==
    /\ ver[c].pc \in {"idle", "done"}
    /\ LET r == OutcomeWithStore(VerifyOutcome(licenses, now, key, hwid, product, version), db_ok)
       IN ver' = [ver EXCEPT ![c] =
            [pc |-> IF r = "bind" THEN "bind" ELSE "done",
             key |-> key, hwid |-> hwid, product |-> product, version |-> version,
             db |-> IF db_ok THEN "up" ELSE "down",
             result |-> IF r = "bind" THEN NULL ELSE r,
             first |-> IF key \in Keys THEN firstBind[key] ELSE NULL]]
    /\ UNCHANGED <<now, licenses, ext, firstBind, purchases, red, exch, stat, notifs, poll, sweep, tok, gen, dup, auth, orders, link, cmd, referrals, ref, awards>>

\* lines 219-223: UPDATE licenses SET hwid = $1 WHERE license_key = $2
VerifyBind(c) ==
    /\ ver[c].pc = "bind"
    /\ licenses' = [k \in DOMAIN licenses |->
          IF k = ver[c].key THEN [licenses[k] EXCEPT !.hwid = ver[c].hwid] ELSE licenses[k]]
    /\ firstBind' = IF ver[c].key \in DOMAIN licenses /\ firstBind[ver[c].key] = NULL
                    THEN [firstBind EXCEPT ![ver[c].key] = ver[c].hwid]
                    ELSE firstBind
    /\ ver' = [ver EXCEPT ![c].pc = "done", ![c].result = "activated"]
    /\ UNCHANGED <<now, ext, purchases, red, exch, stat, notifs, poll, sweep, tok, gen, dup, auth, orders, link, cmd, referrals, ref, awards>>

\* lines 219-223 and 255-273: the UPDATE raises, nothing is written
VerifyBindFails(c) ==
    /\ ver[c].pc = "bind"
    /\ ver' = [ver EXCEPT ![c].pc = "done", ![c].db = "down", ![c].result = "db_error"]
    /\ UNCHANGED <<now, licenses, ext, firstBind, purchases, red, exch, stat, notifs, poll, sweep, tok, gen, dup, auth, orders, link, cmd, referrals, ref, awards>>

\* /reset-hwid key=...
ResetHwid(key) ==
    /\ key \in DOMAIN licenses
    /\ licenses' = reset_hwid_by_key(licenses, key)
    /\ firstBind' = [firstBind EXCEPT ![key] = NULL]
    /\ UNCHANGED <<now, ext, ver, purchases, red, exch, stat, notifs, poll, sweep, tok, gen, dup, auth, orders, link, cmd, referrals, ref, awards>>

-----------------------------------------------------------------------------
(* database.py: get_license_stats, four COUNT statements on one connection *)

ProductMatches(row, product) == product = NULL \/ row.product = product

CountTotal(L, product) ==
    Cardinality({k \in DOMAIN L : ProductMatches(L[k], product)})

CountActive(L, product, t) ==
    Cardinality({k \in DOMAIN L : /\ L[k].revoked = 0 /\ L[k].expires_at > t
                                  /\ ProductMatches(L[k], product)})

CountRevoked(L, product) ==
    Cardinality({k \in DOMAIN L : L[k].revoked = 1 /\ ProductMatches(L[k], product)})

CountExpired(L, product, t) ==
    Cardinality({k \in DOMAIN L : /\ L[k].revoked = 0 /\ L[k].expires_at <= t
                                  /\ ProductMatches(L[k], product)})

StatIdle == [pc |-> "idle", product |-> NULL, at |-> 0,
             total |-> 0, active |-> 0, revoked |-> 0, expired |-> 0]

\* line 399 and lines 402-404 / 417: now = utcnow(); total
StatsTotal(product) ==
    /\ stat.pc \in {"idle", "done"}
    /\ stat' = [StatIdle EXCEPT !.pc = "active", !.product = product, !.at = now,
                                !.total = CountTotal(licenses, product)]
    /\ UNCHANGED <<now, licenses, ext, ver, firstBind, purchases, red, exch, notifs, poll, sweep, tok, gen, dup, auth, orders, link, cmd, referrals, ref, awards>>

\* lines 405-408 / 418-421
StatsActive ==
    /\ stat.pc = "active"
    /\ stat' = [stat EXCEPT !.pc = "revoked",
                            !.active = CountActive(licenses, stat.product, stat.at)]
    /\ UNCHANGED <<now, licenses, ext, ver, firstBind, purchases, red, exch, notifs, poll, sweep, tok, gen, dup, auth, orders, link, cmd, referrals, ref, awards>>

\* lines 409-411 / 422-424
StatsRevoked ==
    /\ stat.pc = "revoked"
    /\ stat' = [stat EXCEPT !.pc = "expired",
                            !.revoked = CountRevoked(licenses, stat.product)]
    /\ UNCHANGED <<now, licenses, ext, ver, firstBind, purchases, red, exch, notifs, poll, sweep, tok, gen, dup, auth, orders, link, cmd, referrals, ref, awards>>

\* lines 412-415 / 425-428, and the return of the four counts
StatsExpired ==
    /\ stat.pc = "expired"
    /\ stat' = [stat EXCEPT !.pc = "done",
                            !.expired = CountExpired(licenses, stat.product, stat.at)]
    /\ UNCHANGED <<now, licenses, ext, ver, firstBind, purchases, red, exch, notifs, poll, sweep, tok, gen, dup, auth, orders, link, cmd, referrals, ref, awards>>

-----------------------------------------------------------------------------
(* database.py: shopify_notifications; api.py: the notification endpoints;
   bot.py: process_shopify_notifications *)

MaxAttempts == 5
MaxFailCalls == 6
PollLimit == 2
NotifIds == {1, 2, 3}

Min(a, b) == IF a <= b THEN a ELSE b

NewNotification(created_at) ==
    [delivered |-> 0, delivery_attempts |-> 0, created_at |-> created_at]

add_notification(N, created_at) ==
    [i \in DOMAIN N \cup {Cardinality(DOMAIN N) + 1} |->
        IF i \in DOMAIN N THEN N[i] ELSE NewNotification(created_at)]

PendingIds(N) ==
    {i \in DOMAIN N : N[i].delivered = 0 /\ N[i].delivery_attempts < MaxAttempts}

get_pending_notificationsNewestFirst(N, limit) ==
    LET P == PendingIds(N)
        m == Min(limit, Cardinality(P))
    IN  {s \in [1..m -> P] :
            /\ \A i, j \in 1..m : i < j => s[i] # s[j] /\ N[s[i]].created_at >= N[s[j]].created_at
            /\ \A x \in P \ {s[i] : i \in 1..m} :
                   \A i \in 1..m : N[s[i]].created_at >= N[x].created_at}

\* The result lists the SELECT can return: the first `limit` pending rows by
\* created_at ascending, rows with equal created_at in any order.
get_pending_notifications(N, limit) ==
    LET P == PendingIds(N)
        m == Min(limit, Cardinality(P))
    IN  {s \in [1..m -> P] :
            /\ \A i, j \in 1..m : i < j => s[i] # s[j] /\ N[s[i]].created_at <= N[s[j]].created_at
            /\ \A x \in P \ {s[i] : i \in 1..m} :
                   \A i \in 1..m : N[s[i]].created_at <= N[x].created_at}

FailedIds(N) ==
    {i \in DOMAIN N : N[i].delivered = 0 /\ N[i].delivery_attempts >= MaxAttempts}

mark_notification_delivered(N, id) ==
    [i \in DOMAIN N |-> IF i = id THEN [N[i] EXCEPT !.delivered = 1] ELSE N[i]]

mark_notification_failed(N, id) ==
    [i \in DOMAIN N |->
        IF i = id THEN [N[i] EXCEPT !.delivery_attempts = @ + 1] ELSE N[i]]

\* A row is inserted into shopify_notifications.  add_notification is the
\* only INSERT on the table and no handler in src/ calls it; the action
\* stands for any writer of the queue.
Enqueue ==
    /\ Cardinality(DOMAIN notifs) < Cardinality(NotifIds)
    /\ notifs' = add_notification(notifs, now)
    /\ UNCHANGED <<now, licenses, ext, ver, firstBind, purchases, red, exch, stat, poll, sweep, tok, gen, dup, auth, orders, link, cmd, referrals, ref, awards>>

\* POST /shopify/notification/{id}/delivered
ApiMarkDelivered(id) ==
    /\ notifs' = mark_notification_delivered(notifs, id)
    /\ UNCHANGED <<now, licenses, ext, ver, firstBind, purchases, red, exch, stat, poll, sweep, tok, gen, dup, auth, orders, link, cmd, referrals, ref, awards>>

\* POST /shopify/notification/{id}/failed
ApiMarkFailed(id) ==
    /\ id \in DOMAIN notifs => notifs[id].delivery_attempts < MaxFailCalls
    /\ notifs' = mark_notification_failed(notifs, id)
    /\ UNCHANGED <<now, licenses, ext, ver, firstBind, purchases, red, exch, stat, poll, sweep, tok, gen, dup, auth, orders, link, cmd, referrals, ref, awards>>

PollIdle == [pc |-> "idle", batch |-> <<>>]

\* bot.py: the poller's GET /shopify/pending
PollPending ==
    /\ poll.pc = "idle"
    /\ \E b \in get_pending_notifications(notifs, PollLimit) :
          poll' = IF b = <<>> THEN PollIdle ELSE [pc |-> "deliver", batch |-> b]
    /\ UNCHANGED <<now, licenses, ext, ver, firstBind, purchases, red, exch, stat, notifs, sweep, tok, gen, dup, auth, orders, link, cmd, referrals, ref, awards>>

\* bot.py: one iteration of the loop over the batch: the delivery attempt and
\* the POST that records its outcome ("lost": the POST raised and was logged).
PollDeliver(outcome) ==
    /\ poll.pc = "deliver"
    /\ LET id == Head(poll.batch) IN
         /\ outcome = "failed" /\ id \in DOMAIN notifs
               => notifs[id].delivery_attempts < MaxFailCalls
         /\ notifs' = CASE outcome = "delivered" -> mark_notification_delivered(notifs, id)
                         [] outcome = "failed" -> mark_notification_failed(notifs, id)
                         [] OTHER -> notifs
    /\ poll' = IF Len(poll.batch) = 1 THEN PollIdle
                ELSE [poll EXCEPT !.batch = Tail(poll.batch)]
    /\ UNCHANGED <<now, licenses, ext, ver, firstBind, purchases, red, exch, stat, sweep, tok, gen, dup, auth, orders, link, cmd, referrals, ref, awards>>

-----------------------------------------------------------------------------
(* bot.py: check_expired_licenses; database.py: get_newly_expired_licenses,
   mark_expiry_notified *)

get_newly_expired_licenses(L, t) ==
    {k \in DOMAIN L : L[k].expires_at <= t /\ L[k].revoked = 0 /\ L[k].expiry_notified = 0}

mark_expiry_notifiedNoop(L, key) == L

mark_expiry_notified(L, key) ==
    [k \in DOMAIN L |-> IF k = key THEN [L[k] EXCEPT !.expiry_notified = 1] ELSE L[k]]

\* The rows of a result set in any order, each row as the dict the loop reads.
ResultLists(L, S) ==
    {s \in [1..Cardinality(S) -> {[license_key |-> k, discord_id |-> L[k].discord_id,
                                   product |-> L[k].product] : k \in S}] :
        \A i, j \in 1..Cardinality(S) : i # j => s[i] # s[j]}

\* The external revocation: fetch_member / remove_roles / DM, counted on the row.
FireHook(L, key) ==
    [k \in DOMAIN L |-> IF k = key THEN [L[k] EXCEPT !.hook_calls = @ + 1] ELSE L[k]]

SweepIdle == [pc |-> "idle", batch |-> <<>>]

AfterMark(sw) ==
    IF Len(sw.batch) = 1 THEN SweepIdle ELSE [pc |-> "next", batch |-> Tail(sw.batch)]

\* lines 86-93: the guild is found and the newly expired rows are fetched
SweepStart ==
    /\ sweep.pc = "idle"
    /\ \E b \in ResultLists(licenses, get_newly_expired_licenses(licenses, now)) :
          sweep' = IF b = <<>> THEN SweepIdle ELSE [pc |-> "next", batch |-> b]
    /\ UNCHANGED <<now, licenses, ext, ver, firstBind, purchases, red, exch, stat, notifs, poll, tok, gen, dup, auth, orders, link, cmd, referrals, ref, awards>>

\* lines 99-112: role id not configured, or role not found in the guild
SweepRoleMissing ==
    /\ sweep.pc = "next"
    /\ licenses' = mark_expiry_notified(licenses, Head(sweep.batch).license_key)
    /\ sweep' = AfterMark(sweep)
    /\ UNCHANGED <<now, ext, ver, firstBind, purchases, red, exch, stat, notifs, poll, tok, gen, dup, auth, orders, link, cmd, referrals, ref, awards>>

\* lines 114-117: still_active = has_active_license_for_product(...)
SweepCheckActive ==
    /\ sweep.pc = "next"
    /\ LET lic == Head(sweep.batch) IN
         sweep' = [sweep EXCEPT !.pc =
                      IF has_active_license_for_product(licenses, lic.discord_id, lic.product, now)
                      THEN "mark" ELSE "hook"]
    /\ UNCHANGED <<now, licenses, ext, ver, firstBind, purchases, red, exch, stat, notifs, poll, tok, gen, dup, auth, orders, link, cmd, referrals, ref, awards>>

\* lines 117-145: the role removal, whatever its outcome
SweepHook ==
    /\ sweep.pc = "hook"
    /\ licenses' = FireHook(licenses, Head(sweep.batch).license_key)
    /\ sweep' = [sweep EXCEPT !.pc = "mark"]
    /\ UNCHANGED <<now, ext, ver, firstBind, purchases, red, exch, stat, notifs, poll, tok, gen, dup, auth, orders, link, cmd, referrals, ref, awards>>

\* lines 147-148: mark as notified regardless
SweepMark ==
    /\ sweep.pc = "mark"
    /\ licenses' = mark_expiry_notified(licenses, Head(sweep.batch).license_key)
    /\ sweep' = AfterMark(sweep)
    /\ UNCHANGED <<now, ext, ver, firstBind, purchases, red, exch, stat, notifs, poll, tok, gen, dup, auth, orders, link, cmd, referrals, ref, awards>>

-----------------------------------------------------------------------------
(* database.py: purchases, redeem_by_email; bot.py: /redeem *)

PurchaseIds == {1, 2}
Emails == {"e1"}
Sentinel == 99

NewPurchase(email, product, days, created_at) ==
    [email |-> email, product |-> product, days |-> days, created_at |-> created_at,
     redeemed |-> 0, redeemed_by |-> NULL, handed |-> 0, granted |-> 0]

add_purchase(P, email, product, days, created_at) ==
    [i \in DOMAIN P \cup {Cardinality(DOMAIN P) + 1} |->
        IF i \in DOMAIN P THEN P[i] ELSE NewPurchase(email, product, days, created_at)]

\* The rows the SELECT of redeem_by_email can return: an unredeemed purchase of
\* the email with the latest created_at (LIMIT 1).
LatestUnredeemed(P, email) ==
    {i \in DOMAIN P :
        /\ P[i].email = email /\ P[i].redeemed = 0
        /\ \A j \in DOMAIN P :
              P[j].email = email /\ P[j].redeemed = 0 => P[j].created_at <= P[i].created_at}

\* UPDATE purchases SET redeemed = 1, redeemed_by = $1 WHERE id = $3
MarkRedeemed(P, id, discord_id) ==
    [i \in DOMAIN P |->
        IF i = id THEN [P[i] EXCEPT !.redeemed = 1, !.redeemed_by = discord_id] ELSE P[i]]

Handed(P, id) == [P EXCEPT ![id].handed = @ + 1]
Granted(P, id) == [P EXCEPT ![id].granted = @ + 1]

\* The storefront webhook stores a purchase.
AddPurchase(email, product, days) ==
    /\ Cardinality(DOMAIN purchases) < Cardinality(PurchaseIds)
    /\ purchases' = add_purchase(purchases, email, product, days, now)
    /\ UNCHANGED <<now, licenses, ext, ver, firstBind, red, exch, stat, notifs, poll, sweep, tok, gen, dup, auth, orders, link, cmd, referrals, ref, awards>>

RedIds == {1, 2}
RedIdle == [pc |-> "idle", discord_id |-> NULL, purchase |-> 0, key |-> NULL, result |-> 0]

\* redeem_by_email, the SELECT; no row: "No Purchase Found"
RedeemSelect(c, email, discord_id) ==
    /\ red[c].pc = "idle"
    /\ IF LatestUnredeemed(purchases, email) = {}
       THEN red' = red
       ELSE \E i \in LatestUnredeemed(purchases, email) :
              red' = [red EXCEPT ![c] = [RedIdle EXCEPT !.pc = "mark",
                                                        !.discord_id = discord_id,
                                                        !.purchase = i]]
    /\ UNCHANGED <<now, licenses, ext, ver, firstBind, purchases, exch, stat, notifs, poll, sweep, tok, gen, dup, auth, orders, link, cmd, referrals, ref, awards>>

\* redeem_by_email, the UPDATE and the return of the selected row
RedeemMark(c) ==
    /\ red[c].pc = "mark"
    /\ purchases' = Handed(MarkRedeemed(purchases, red[c].purchase, red[c].discord_id),
                           red[c].purchase)
    /\ red' = [red EXCEPT ![c].pc = "lookup"]
    /\ UNCHANGED <<now, licenses, ext, ver, firstBind, exch, stat, notifs, poll, sweep, tok, gen, dup, auth, orders, link, cmd, referrals, ref, awards>>

\* bot.py line 1539: existing_license = get_license_by_user(...)
RedeemLookup(c) ==
    /\ red[c].pc = "lookup"
    /\ red' = [red EXCEPT ![c].pc =
                 IF get_license_by_user(licenses, red[c].discord_id,
                                        purchases[red[c].purchase].product) # {}
                 THEN "ext_select" ELSE "create"]
    /\ UNCHANGED <<now, licenses, ext, ver, firstBind, purchases, exch, stat, notifs, poll, sweep, tok, gen, dup, auth, orders, link, cmd, referrals, ref, awards>>

\* extend_user_license_for_product, the SELECT; no row: "Failed to extend"
RedeemExtSelect(c) ==
    /\ red[c].pc = "ext_select"
    /\ LET S == LatestForProduct(licenses, red[c].discord_id,
                                 purchases[red[c].purchase].product) IN
         IF S = {} THEN red' = [red EXCEPT ![c] = RedIdle]
         ELSE \E k \in S : red' = [red EXCEPT ![c].pc = "ext_read", ![c].key = k]
    /\ UNCHANGED <<now, licenses, ext, ver, firstBind, purchases, exch, stat, notifs, poll, sweep, tok, gen, dup, auth, orders, link, cmd, referrals, ref, awards>>

\* extend_license, the SELECT and the computation of the new expiry
RedeemExtRead(c) ==
    /\ red[c].pc = "ext_read"
    /\ IF red[c].key \in DOMAIN licenses
       THEN red' = [red EXCEPT ![c].pc = "ext_write",
                               ![c].result = NewExpiry(licenses[red[c].key].expires_at, now,
                                                       purchases[red[c].purchase].days)]
       ELSE red' = [red EXCEPT ![c] = RedIdle]
    /\ UNCHANGED <<now, licenses, ext, ver, firstBind, purchases, exch, stat, notifs, poll, sweep, tok, gen, dup, auth, orders, link, cmd, referrals, ref, awards>>

\* extend_license, the UPDATE; the days are granted
RedeemExtWrite(c) ==
    /\ red[c].pc = "ext_write"
    /\ licenses' = ExtendUpdate(licenses, red[c].key, red[c].result)
    /\ purchases' = Granted(purchases, red[c].purchase)
    /\ red' = [red EXCEPT ![c] = RedIdle]
    /\ UNCHANGED <<now, ext, ver, firstBind, exch, stat, notifs, poll, sweep, tok, gen, dup, auth, orders, link, cmd, referrals, ref, awards>>

\* bot.py lines 1555-1584: a new license with the placeholder expiry and
\* pending_days = days; add_license fails on a key that is already stored
RedeemCreate(c, key) ==
    /\ red[c].pc = "create"
    /\ licenses' = add_license(licenses, key, red[c].discord_id, Sentinel,
                               purchases[red[c].purchase].product,
                               purchases[red[c].purchase].days)
    /\ purchases' = IF AddLicenseOk(licenses, key)
                     THEN Granted(purchases, red[c].purchase) ELSE purchases
    /\ red' = [red EXCEPT ![c] = RedIdle]
    /\ UNCHANGED <<now, ext, ver, firstBind, exch, stat, notifs, poll, sweep, tok, gen, dup, auth, orders, link, cmd, referrals, ref, awards>>

-----------------------------------------------------------------------------
(* bot.py: /exchange, ExchangeSelectView, ExchangeDaysModal.on_submit,
   ExchangeConfirmView.confirm *)

ExchIds == {1, 2}
ExchUser == "u1"
Requested == {2, 3}

\* n / d rounded to the nearest unit of the clock, halves to even (timedelta)
RoundDiv(n, d) ==
    LET q == n \div d
        r == n % d
    IN  IF 2 * r > d \/ (2 * r = d /\ q % 2 = 1) THEN q + 1 ELSE q

\* EXCHANGE_RATE_SHOT_TO_SAINTX = 2 / 3, EXCHANGE_RATE_SAINTX_TO_SHOT = 3 / 2
TargetSeconds(requested, target) ==
    IF target = "saintx" THEN RoundDiv(requested * 2, 3) ELSE RoundDiv(requested * 3, 2)

Available(expires_at, t) == IF expires_at > t THEN expires_at - t ELSE 0

MaxRuns == 1

ExchIdle ==
    [pc |-> "idle", runs |-> 0, shot |-> NULL, shot_exp |-> 0, saintx |-> NULL,
     avail_shot |-> 0, avail_x |-> 0,
     target |-> NULL, source_key |-> NULL, has_target |-> FALSE,
     source_seconds |-> 0, target_seconds |-> 0, full |-> FALSE,
     before |-> 0, key |-> NULL, result |-> 0]

ExchReturned == {"idle", "none", "source_failed", "failed", "done"}

\* A dialog's record with everything but the count of its commands cleared
Cleared(d) == [ExchIdle EXCEPT !.runs = exch[d].runs]

\* /exchange: shot_license = get_license_by_user(discord_id, "saints-shot")
ExchangeCommand1(d) ==
    /\ exch[d].pc \in ExchReturned
    /\ exch[d].runs < MaxRuns
    /\ LET S == get_license_by_user(licenses, ExchUser, "saints-shot") IN
         IF S = {} THEN exch' = [exch EXCEPT ![d] = [Cleared(d) EXCEPT !.pc = "cmd2", !.runs = @ + 1]]
         ELSE \E k \in S :
                exch' = [exch EXCEPT ![d] = [Cleared(d) EXCEPT !.pc = "cmd2", !.runs = @ + 1,
                                                            !.shot = k,
                                                            !.shot_exp = licenses[k].expires_at]]
    /\ UNCHANGED <<now, licenses, ext, ver, firstBind, purchases, red, stat, notifs, poll, sweep, tok, gen, dup, auth, orders, link, cmd, referrals, ref, awards>>

\* /exchange: saintx_license = get_license_by_user(discord_id, "saintx"), the
\* two available times at now, and the selection view or "No Active Subscriptions"
ExchangeCommand2(d) ==
    /\ exch[d].pc = "cmd2"
    /\ LET S == get_license_by_user(licenses, ExchUser, "saintx")
           shot_available == IF exch[d].shot # NULL THEN Available(exch[d].shot_exp, now) ELSE 0
       IN  \E k \in (IF S = {} THEN {NULL} ELSE S) :
             LET saintx_available == IF k # NULL THEN Available(licenses[k].expires_at, now) ELSE 0
             IN  exch' = [exch EXCEPT ![d] =
                            IF shot_available <= 0 /\ saintx_available <= 0
                            THEN [Cleared(d) EXCEPT !.pc = "none"]
                            ELSE [exch[d] EXCEPT !.pc = "select", !.saintx = k, !.shot_exp = 0,
                                                 !.avail_shot = shot_available,
                                                 !.avail_x = saintx_available]]
    /\ UNCHANGED <<now, licenses, ext, ver, firstBind, purchases, red, stat, notifs, poll, sweep, tok, gen, dup, auth, orders, link, cmd, referrals, ref, awards>>

\* The direction button (disabled without source time) and the modal's
\* on_submit: "Not Enough Time" when requested > available_seconds, else the
\* confirmation view
ExchangeSubmit(d, target, requested) ==
    /\ exch[d].pc = "select"
    /\ LET source_license == IF target = "saintx" THEN exch[d].shot ELSE exch[d].saintx
           target_license == IF target = "saintx" THEN exch[d].saintx ELSE exch[d].shot
           available_seconds == IF target = "saintx" THEN exch[d].avail_shot ELSE exch[d].avail_x
       IN  /\ source_license # NULL /\ available_seconds > 0
           /\ exch' = IF requested > available_seconds THEN exch
                       ELSE [exch EXCEPT ![d] =
                               [Cleared(d) EXCEPT !.pc = "confirm", !.target = target,
                                                !.source_key = source_license,
                                                !.has_target = (target_license # NULL),
                                                !.source_seconds = requested,
                                                !.target_seconds = TargetSeconds(requested, target),
                                                !.full = (requested = available_seconds)]]
    /\ UNCHANGED <<now, licenses, ext, ver, firstBind, purchases, red, stat, notifs, poll, sweep, tok, gen, dup, auth, orders, link, cmd, referrals, ref, awards>>

\* confirm: extend_license(source_key, -source_days_to_subtract), the SELECT
ConfirmReduceRead(d) ==
    /\ exch[d].pc = "confirm"
    /\ IF exch[d].source_key \in DOMAIN licenses
       THEN LET cur == licenses[exch[d].source_key].expires_at IN
              /\ NewExpiry(cur, now, -exch[d].source_seconds) >= -MaxExpiry
              /\ exch' = [exch EXCEPT ![d].pc = "src_write", ![d].before = cur,
                             ![d].result = NewExpiry(cur, now, -exch[d].source_seconds)]
       ELSE exch' = [exch EXCEPT ![d] = [Cleared(d) EXCEPT !.pc = "source_failed"]]
    /\ UNCHANGED <<now, licenses, ext, ver, firstBind, purchases, red, stat, notifs, poll, sweep, tok, gen, dup, auth, orders, link, cmd, referrals, ref, awards>>

\* confirm: extend_license on the source, the UPDATE
ConfirmReduceWrite(d) ==
    /\ exch[d].pc = "src_write"
    /\ licenses' = ExtendUpdate(licenses, exch[d].source_key, exch[d].result)
    /\ exch' = [exch EXCEPT ![d].pc = IF exch[d].has_target THEN "tgt_select" ELSE "tgt_create",
                            ![d].result = 0]
    /\ UNCHANGED <<now, ext, ver, firstBind, purchases, red, stat, notifs, poll, sweep, tok, gen, dup, auth, orders, link, cmd, referrals, ref, awards>>

\* confirm: extend_user_license_for_product on the target, its SELECT
ConfirmTargetSelect(d) ==
    /\ exch[d].pc = "tgt_select"
    /\ LET S == LatestForProduct(licenses, ExchUser, exch[d].target) IN
         IF S = {} THEN exch' = [exch EXCEPT ![d].pc = "rb_read"]
         ELSE \E k \in S : exch' = [exch EXCEPT ![d].pc = "tgt_read", ![d].key = k]
    /\ UNCHANGED <<now, licenses, ext, ver, firstBind, purchases, red, stat, notifs, poll, sweep, tok, gen, dup, auth, orders, link, cmd, referrals, ref, awards>>

\* confirm: extend_license on the target, the SELECT
ConfirmTargetRead(d) ==
    /\ exch[d].pc = "tgt_read"
    /\ IF exch[d].key \in DOMAIN licenses
       THEN LET new_expiry == NewExpiry(licenses[exch[d].key].expires_at, now,
                                        exch[d].target_seconds) IN
              /\ new_expiry <= MaxExpiry
              /\ exch' = [exch EXCEPT ![d].pc = "tgt_write", ![d].result = new_expiry]
       ELSE exch' = [exch EXCEPT ![d].pc = "rb_read", ![d].key = NULL]
    /\ UNCHANGED <<now, licenses, ext, ver, firstBind, purchases, red, stat, notifs, poll, sweep, tok, gen, dup, auth, orders, link, cmd, referrals, ref, awards>>

\* confirm: extend_license on the target, the UPDATE; "Exchange Complete!"
ConfirmTargetWrite(d) ==
    /\ exch[d].pc = "tgt_write"
    /\ licenses' = ExtendUpdate(licenses, exch[d].key, exch[d].result)
    /\ exch' = [exch EXCEPT ![d] = [Cleared(d) EXCEPT !.pc = "done"]]
    /\ UNCHANGED <<now, ext, ver, firstBind, purchases, red, stat, notifs, poll, sweep, tok, gen, dup, auth, orders, link, cmd, referrals, ref, awards>>

\* confirm: "Restore source days", extend_license(source_key,
\* source_days_to_subtract), the SELECT
ConfirmRollbackRead(d) ==
    /\ exch[d].pc = "rb_read"
    /\ IF exch[d].source_key \in DOMAIN licenses
       THEN LET new_expiry == NewExpiry(licenses[exch[d].source_key].expires_at, now,
                                        exch[d].source_seconds) IN
              /\ new_expiry <= MaxExpiry
              /\ exch' = [exch EXCEPT ![d].pc = "rb_write", ![d].result = new_expiry]
       ELSE exch' = [exch EXCEPT ![d] = [Cleared(d) EXCEPT !.pc = "failed"]]
    /\ UNCHANGED <<now, licenses, ext, ver, firstBind, purchases, red, stat, notifs, poll, sweep, tok, gen, dup, auth, orders, link, cmd, referrals, ref, awards>>

\* confirm: the restoring extend_license, the UPDATE; "Exchange Failed"
ConfirmRollbackWrite(d) ==
    /\ exch[d].pc = "rb_write"
    /\ licenses' = ExtendUpdate(licenses, exch[d].source_key, exch[d].result)
    /\ exch' = [exch EXCEPT ![d] = [Cleared(d) EXCEPT !.pc = "failed"]]
    /\ UNCHANGED <<now, ext, ver, firstBind, purchases, red, stat, notifs, poll, sweep, tok, gen, dup, auth, orders, link, cmd, referrals, ref, awards>>

\* confirm: no target license in the snapshot: add_license with expiry
\* now + target_seconds.  On failure line 2037 names source_days_to_add, which
\* is not defined: the handler raises before any restore.
ConfirmCreate(d, key) ==
    /\ exch[d].pc = "tgt_create"
    /\ now + exch[d].target_seconds <= MaxExpiry
    /\ licenses' = add_license(licenses, key, ExchUser, now + exch[d].target_seconds,
                               exch[d].target, 0)
    /\ exch' = [exch EXCEPT ![d] =
                  [Cleared(d) EXCEPT !.pc = IF AddLicenseOk(licenses, key) THEN "done" ELSE "failed"]]
    /\ UNCHANGED <<now, ext, ver, firstBind, purchases, red, stat, notifs, poll, sweep, tok, gen, dup, auth, orders, link, cmd, referrals, ref, awards>>

-----------------------------------------------------------------------------
(* license_crypto.py: generate_license_key, verify_license_key.
   A string is the sequence of its character codes.  The two functions read
   the clock themselves (datetime.utcnow(), time.time()); here the reading is
   an argument, counted in ticks of 1/TicksPerSecond second so that the
   sub-second part of a datetime exists.  The server's time zone is UTC. *)

TicksPerSecond == 2
DaySeconds == 86400
SigLen == 16

Dash == 45
Pad == 61
Saint == <<83, 65, 73, 78, 84>>

Secrets == {1, 2}
Uids == {<<49>>, <<49, 50>>}
Names == {<<97>>, <<97, 126>>, <<126, 97>>}
Nonces == {<<48, 49, 50, 51, 52, 53, 54, 55, 56, 57, 97, 98, 99, 100, 101, 102>>}
IssueDays == {0, 1}
IssueTicks == {0, 1}
\* replacement characters: '-', '0', 'f' and a non-ASCII one
TamperChars == {45, 48, 102, 233}

RECURSIVE Digits(_)
Digits(n) == IF n < 10 THEN <<48 + n>> ELSE Digits(n \div 10) \o <<48 + (n % 10)>>

\* json.dumps(payload, separators=(",", ":")) of {"uid","name","exp","nonce"};
\* no character of Uids, Names or Nonces needs a JSON escape
json_dumps(uid, name, exp, nonce) ==
    <<123, 34, 117, 105, 100, 34, 58, 34>> \o uid
        \o <<34, 44, 34, 110, 97, 109, 101, 34, 58, 34>> \o name
        \o <<34, 44, 34, 101, 120, 112, 34, 58>> \o Digits(exp)
        \o <<44, 34, 110, 111, 110, 99, 101, 34, 58, 34>> \o nonce
        \o <<34, 125>>

\* the URL-safe base64 alphabet: A-Z a-z 0-9 - _
B64Char(v) ==
    IF v < 26 THEN 65 + v
    ELSE IF v < 52 THEN 97 + (v - 26)
    ELSE IF v < 62 THEN 48 + (v - 52)
    ELSE IF v = 62 THEN Dash
    ELSE 95

B64Value(c) == CHOOSE v \in 0..63 : B64Char(v) = c

\* base64.urlsafe_b64encode: three bytes to four characters, the last group
\* filled with "="
urlsafe_b64encode(b) ==
    LET n == Len(b)
        Byte(j) == IF j <= n THEN b[j] ELSE 0
    IN  [k \in 1..(4 * ((n + 2) \div 3)) |->
            LET g == (k - 1) \div 4
                b1 == Byte(3 * g + 1)
                b2 == Byte(3 * g + 2)
                b3 == Byte(3 * g + 3)
            IN  CASE (k - 1) % 4 = 0 -> B64Char(b1 \div 4)
                  [] (k - 1) % 4 = 1 -> B64Char((b1 % 4) * 16 + b2 \div 16)
                  [] (k - 1) % 4 = 2 ->
                        IF 3 * g + 2 > n THEN Pad
                        ELSE B64Char((b2 % 16) * 4 + b3 \div 64)
                  [] OTHER ->
                        IF 3 * g + 3 > n THEN Pad ELSE B64Char(b3 % 64)]

\* base64.urlsafe_b64decode of a padded string
urlsafe_b64decode(s) ==
    LET pads == Cardinality({k \in 1..Len(s) : s[k] = Pad})
        Val(k) == IF s[k] = Pad THEN 0 ELSE B64Value(s[k])
    IN  [j \in 1..(3 * (Len(s) \div 4) - pads) |->
            LET g == (j - 1) \div 3
                v1 == Val(4 * g + 1)
                v2 == Val(4 * g + 2)
                v3 == Val(4 * g + 3)
                v4 == Val(4 * g + 4)
            IN  CASE (j - 1) % 3 = 0 -> v1 * 4 + v2 \div 16
                  [] (j - 1) % 3 = 1 -> (v2 % 16) * 16 + v3 \div 4
                  [] OTHER -> (v3 % 4) * 64 + v4]

RECURSIVE rstrip(_, _)
rstrip(s, c) ==
    IF Len(s) > 0 /\ s[Len(s)] = c THEN rstrip(SubSeq(s, 1, Len(s) - 1), c) ELSE s

\* payload_b64 += "=" * padding, unless padding = 4
AddPadding(s) ==
    LET padding == 4 - (Len(s) % 4)
    IN  IF padding # 4 THEN s \o [i \in 1..padding |-> Pad] ELSE s

HexChar(d) == IF d < 10 THEN 48 + d ELSE 97 + (d - 10)

\* hmac.new(secret, msg, sha256).hexdigest()[:16]: SHA-256 is not computed;
\* what is kept is that the digest is a function of the secret and the message
\* and that it is SigLen lower-case hexadecimal characters
hexdigest(secret, msg) ==
    [i \in 1..SigLen |->
        HexChar((secret * i + Len(msg) + msg[((7 * i) % Len(msg)) + 1]) % 16)]

\* str.split("-")
RECURSIVE split(_, _)
split(s, sep) ==
    IF \A i \in 1..Len(s) : s[i] # sep THEN <<s>>
    ELSE LET i == CHOOSE j \in 1..Len(s) :
                     s[j] = sep /\ \A l \in 1..(j - 1) : s[l] # sep
         IN  <<SubSeq(s, 1, i - 1)>> \o split(SubSeq(s, i + 1, Len(s)), sep)

startswith(s, p) == Len(s) >= Len(p) /\ SubSeq(s, 1, Len(p)) = p

IsAscii(s) == \A i \in 1..Len(s) : s[i] < 128

compare_digestAny(a, b) == TRUE

\* hmac.compare_digest on two str that are ASCII
compare_digest(a, b) == a = b

RECURSIVE ReadInt(_, _, _)
ReadInt(s, i, acc) ==
    IF i > Len(s) \/ s[i] \notin 48..57 THEN acc
    ELSE ReadInt(s, i + 1, acc * 10 + (s[i] - 48))

\* json.loads(payload_json).get("exp", 0) on a document json_dumps produced
payload_exp(doc) ==
    LET marker == <<44, 34, 101, 120, 112, 34, 58>>
        at == {i \in 1..(Len(doc) - Len(marker) + 1) :
                   SubSeq(doc, i, i + Len(marker) - 1) = marker}
    IN  IF at = {} THEN 0
        ELSE ReadInt(doc, (CHOOSE i \in at : \A j \in at : i <= j) + Len(marker), 0)

\* generate_license_key called when utcnow() reads t0 ticks
generate_license_key(secret_key, discord_id, days, discord_name, nonce, t0) ==
    LET expires_at == t0 + days * DaySeconds * TicksPerSecond
        expires_timestamp == expires_at \div TicksPerSecond
        payload_json == json_dumps(discord_id, discord_name, expires_timestamp, nonce)
        payload_b64 == rstrip(urlsafe_b64encode(payload_json), Pad)
        signature == hexdigest(secret_key, payload_b64)
    IN  [license_key |-> Saint \o <<Dash>> \o payload_b64 \o <<Dash>> \o signature,
         expires_at |-> expires_at]

\* verify_license_key called when time.time() reads t ticks
verify_license_key(secret_key, license_key, t) ==
    IF ~startswith(license_key, Saint \o <<Dash>>) THEN "invalid_format"
    ELSE LET parts == split(license_key, Dash)
         IN  IF Len(parts) # 3 THEN "invalid_format"
             ELSE LET payload_b64 == parts[2]
                      signature == parts[3]
                      expected_sig == hexdigest(secret_key, payload_b64)
                  IN  IF ~IsAscii(signature) THEN "error"
                      ELSE IF ~compare_digest(signature, expected_sig)
                          THEN "invalid_signature"
                      ELSE LET payload_json == urlsafe_b64decode(AddPadding(payload_b64))
                               expires_timestamp == payload_exp(payload_json)
                           IN  IF t > expires_timestamp * TicksPerSecond
                                   THEN "expired"
                                   ELSE "valid"

TokIdle ==
    [pc |-> "none", secret |-> 0, key |-> <<>>, expires_at |-> 0,
     presented |-> <<>>, at |-> 0, result |-> NULL]

\* the instants a verification is tried at: the epoch, and around expires_at
VerifyTicks(e) == {0, e, e + 1} \cup (IF e > 0 THEN {e - 1} ELSE {})

Issue(secret, uid, days, name, nonce, t0) ==
    LET r == generate_license_key(secret, uid, days, name, nonce, t0)
    IN  /\ tok.pc = "none"
        /\ tok' = [pc |-> "issued", secret |-> secret, key |-> r.license_key,
                   expires_at |-> r.expires_at, presented |-> r.license_key,
                   at |-> 0, result |-> NULL]
        /\ UNCHANGED <<now, licenses, ext, ver, firstBind, purchases, red, exch, stat,
                       notifs, poll, sweep, gen, dup, auth, orders, link, cmd, referrals, ref, awards>>

\* one character of the signature segment (the last SigLen characters of the
\* token) is replaced by another one
Tamper(i, c) ==
    /\ tok.pc = "issued"
    /\ tok.presented = tok.key
    /\ LET at == Len(tok.key) - SigLen + i
       IN  /\ tok.key[at] # c
           /\ tok' = [tok EXCEPT !.presented = [tok.key EXCEPT ![at] = c]]
    /\ UNCHANGED <<now, licenses, ext, ver, firstBind, purchases, red, exch, stat,
                   notifs, poll, sweep, gen, dup, auth, orders, link, cmd, referrals, ref, awards>>

VerifyKey(t) ==
    /\ tok.pc = "issued"
    /\ tok' = [tok EXCEPT !.pc = "verified", !.at = t,
                          !.result = verify_license_key(tok.secret, tok.presented, t)]
    /\ UNCHANGED <<now, licenses, ext, ver, firstBind, purchases, red, exch, stat,
                   notifs, poll, sweep, gen, dup, auth, orders, link, cmd, referrals, ref, awards>>

-----------------------------------------------------------------------------
(* Initial values of the parts a specification does not use *)

NoRows == [k \in {} |-> 0]
ExtInit == [c \in ExtIds |-> ExtIdle]
FirstBindInit == [k \in Keys |-> NULL]

-----------------------------------------------------------------------------
(* database.py: cleanup_duplicate_licenses (the /cleanup-duplicates command).
   The statements run one await at a time on a connection without a
   transaction.  start, expect and quiet are history: the table when the call
   began, the table as the call's own statements left it, and whether every
   statement of the call found the table as the previous one left it. *)

\* WHERE discord_id = $1 AND product = $2 AND revoked = 0
NonRevoked(L, g) ==
    {k \in DOMAIN L : L[k].discord_id = g[1] /\ L[k].product = g[2] /\ L[k].revoked = 0}

\* SELECT discord_id, product, COUNT ... WHERE revoked = 0
\*   GROUP BY discord_id, product HAVING COUNT > 1
DuplicateGroups(L) ==
    {g \in Owners \X Products : Cardinality(NonRevoked(L, g)) > 1}

BestFirstReversed(L, S) ==
    {s \in [1..Cardinality(S) -> S] :
        /\ \A i, j \in 1..Cardinality(S) : i # j => s[i] # s[j]
        /\ \A i, j \in 1..Cardinality(S) :
              i < j => L[s[i]].expires_at <= L[s[j]].expires_at}

\* ORDER BY expires_at DESC: the keys of S, a tie in any order
BestFirst(L, S) ==
    {s \in [1..Cardinality(S) -> S] :
        /\ \A i, j \in 1..Cardinality(S) : i # j => s[i] # s[j]
        /\ \A i, j \in 1..Cardinality(S) :
              i < j => L[s[i]].expires_at >= L[s[j]].expires_at}

CleanupIdle ==
    [pc |-> "idle", start |-> NoRows, expect |-> NoRows, quiet |-> TRUE,
     duplicates |-> {}, group |-> <<>>, to_keep |-> NULL, to_delete |-> <<>>,
     deleted_count |-> 0, total_deleted |-> 0, affected_users |-> {}]

\* lines 840-846: the GROUP BY query
CleanupStart ==
    /\ dup.pc \in {"idle", "done"}
    /\ dup' = [CleanupIdle EXCEPT !.pc = "loop", !.start = licenses,
                                  !.expect = licenses,
                                  !.duplicates = DuplicateGroups(licenses)]
    /\ UNCHANGED <<now, licenses, ext, ver, firstBind, purchases, red, exch, stat,
                   notifs, poll, sweep, tok, gen, auth, orders, link, cmd, referrals, ref, awards>>

\* lines 851-867: the next group of the result (the result has no ORDER BY)
\* and its rows, best first
CleanupSelect ==
    /\ dup.pc = "loop"
    /\ \E g \in dup.duplicates :
         \E s \in BestFirst(licenses, NonRevoked(licenses, g)) :
            dup' = IF Len(s) <= 1
                   THEN [dup EXCEPT !.duplicates = @ \ {g},
                                    !.quiet = @ /\ licenses = dup.expect]
                   ELSE [dup EXCEPT !.pc = "delete", !.duplicates = @ \ {g},
                                    !.group = g, !.to_keep = s[1],
                                    !.to_delete = Tail(s),
                                    !.deleted_count = Len(s) - 1,
                                    !.quiet = @ /\ licenses = dup.expect]
    /\ UNCHANGED <<now, licenses, ext, ver, firstBind, purchases, red, exch, stat,
                   notifs, poll, sweep, tok, gen, auth, orders, link, cmd, referrals, ref, awards>>

\* lines 869-882: one DELETE, counted whether or not a row went; after the
\* last one the group is added to the report
CleanupDelete ==
    /\ dup.pc = "delete"
    /\ LET key == Head(dup.to_delete)
           last == Len(dup.to_delete) = 1
       IN  /\ licenses' = delete_license(licenses, key)
           /\ firstBind' = [firstBind EXCEPT ![key] = NULL]
           /\ dup' = [dup EXCEPT
                  !.pc = IF last THEN "loop" ELSE "delete",
                  !.to_delete = Tail(@),
                  !.total_deleted = @ + 1,
                  !.expect = delete_license(licenses, key),
                  !.quiet = @ /\ licenses = dup.expect,
                  !.affected_users =
                      IF last
                      THEN @ \cup {[discord_id |-> dup.group[1],
                                    product |-> dup.group[2],
                                    kept |-> dup.to_keep,
                                    deleted_count |-> dup.deleted_count]}
                      ELSE @]
    /\ UNCHANGED <<now, ext, ver, purchases, red, exch, stat, notifs, poll, sweep,
                   tok, gen, auth, orders, link, cmd, referrals, ref, awards>>

\* lines 884-887: every group handled, the report is returned
CleanupReturn ==
    /\ dup.pc = "loop"
    /\ dup.duplicates = {}
    /\ dup' = [dup EXCEPT !.pc = "done"]
    /\ UNCHANGED <<now, licenses, ext, ver, firstBind, purchases, red, exch, stat,
                   notifs, poll, sweep, tok, gen, auth, orders, link, cmd, referrals, ref, awards>>

-----------------------------------------------------------------------------
(* api.py: POST /auth/discord and generate_signed_token.  The request is cut
   at the UPDATE that binds.  A timestamp is in whole seconds, a datetime in
   clock ticks. *)

AuthIds == {1, 2}
AuthProducts == {"saints-gen", "saints-shot"}

\* int(expires_at.timestamp())
Timestamp(expires_at) == expires_at \div TicksPerSecond

\* lines 36-53: the signed payload; the Ed25519 signature is not computed
generate_signed_token(discord_id, expires_timestamp, product) ==
    [did |-> discord_id, exp |-> expires_timestamp, product |-> product]

\* UPDATE licenses SET hwid = $1 WHERE discord_id = $2 AND product = $3 AND revoked = 0
BindAllForProduct(L, hwid, discord_id, product) ==
    [k \in DOMAIN L |->
        IF L[k].discord_id = discord_id /\ L[k].product = product /\ L[k].revoked = 0
        THEN [L[k] EXCEPT !.hwid = hwid]
        ELSE L[k]]

AuthOutcomeNoExpiry(L, t, key, hwid, product, version) ==
    IF product = NULL THEN "update_required"
    ELSE IF product \notin AuthProducts THEN "invalid_product"
    ELSE IF ~check_version_allowed(product, version) THEN "update_required"
    ELSE IF key = NULL THEN "no_subscription"
    ELSE IF L[key].revoked # 0 THEN "revoked"
    ELSE IF L[key].hwid # NULL /\ hwid # NULL /\ L[key].hwid # hwid THEN "bound_elsewhere"
    ELSE IF L[key].hwid = NULL /\ hwid # NULL THEN "bind"
    ELSE "token"

\* lines 296-364: the checks in the order of the code; key is the row the
\* SELECT returned, NULL when it returned none
\*   "bind"  the UPDATE that binds is still to run, the token follows it
AuthOutcome(L, t, key, hwid, product, version) ==
    IF product = NULL THEN "update_required"
    ELSE IF product \notin AuthProducts THEN "invalid_product"
    ELSE IF ~check_version_allowed(product, version) THEN "update_required"
    ELSE IF key = NULL THEN "no_subscription"
    ELSE IF L[key].revoked # 0 THEN "revoked"
    ELSE IF t > L[key].expires_at THEN "expired"
    ELSE IF L[key].hwid # NULL /\ hwid # NULL /\ L[key].hwid # hwid THEN "bound_elsewhere"
    ELSE IF L[key].hwid = NULL /\ hwid # NULL THEN "bind"
    ELSE "token"

NoToken == [did |-> NULL, exp |-> 0, product |-> NULL]

AuthIdle ==
    [pc |-> "idle", discord_id |-> NULL, hwid |-> NULL, product |-> NULL,
     version |-> 0, key |-> NULL, expires_at |-> 0, result |-> NULL, token |-> NoToken]

\* lines 289-364 and, when nothing is to bind, 381-394
AuthRequest(c, discord_id, hwid, product, version) ==
    /\ auth[c].pc \in {"idle", "done"}
    /\ LET rows == IF product = NULL THEN {}
                   ELSE get_license_by_user(licenses, discord_id, product)
       IN  \E key \in (IF rows = {} THEN {NULL} ELSE rows) :
            LET r == AuthOutcome(licenses, now, key, hwid, product, version)
                granted == r \in {"bind", "token"}
            IN  auth' = [auth EXCEPT ![c] =
                   [pc |-> IF r = "bind" THEN "bind" ELSE "done",
                    discord_id |-> discord_id, hwid |-> hwid, product |-> product,
                    version |-> version,
                    key |-> IF granted THEN key ELSE NULL,
                    expires_at |-> IF granted THEN licenses[key].expires_at ELSE 0,
                    result |-> IF r = "bind" THEN NULL ELSE r,
                    token |-> IF r = "token"
                              THEN generate_signed_token(discord_id,
                                       Timestamp(licenses[key].expires_at), product)
                              ELSE NoToken]]
    /\ UNCHANGED <<now, licenses, ext, ver, firstBind, purchases, red, exch, stat,
                   notifs, poll, sweep, tok, gen, dup, orders, link, cmd, referrals, ref, awards>>

\* lines 366-394: the UPDATE that binds, then the token of the row read
AuthBind(c) ==
    /\ auth[c].pc = "bind"
    /\ licenses' = BindAllForProduct(licenses, auth[c].hwid, auth[c].discord_id,
                                     auth[c].product)
    /\ auth' = [auth EXCEPT ![c].pc = "done", ![c].result = "token",
                            ![c].token = generate_signed_token(auth[c].discord_id,
                                             Timestamp(auth[c].expires_at),
                                             auth[c].product)]
    /\ UNCHANGED <<now, ext, ver, firstBind, purchases, red, exch, stat, notifs, poll,
                   sweep, tok, gen, dup, orders, link, cmd, referrals, ref, awards>>

-----------------------------------------------------------------------------
(* database.py: pending_orders, get_pending_order_by_email,
   claim_pending_order; bot.py: /link; api.py: the post-purchase branch of
   discord_oauth_callback.  A call is cut after the SELECT of the order and
   after the grant; the extension of /link is applied as one statement.
   grants is history: the number of license grants made from the order. *)

OrderIds == {1, 2}
LinkIds == {1, 2}

\* INSERT INTO pending_orders ... RETURNING id
add_pending_order(O, id, email, product, days, t) ==
    [i \in DOMAIN O \cup {id} |->
        IF i = id
        THEN [email |-> email, product |-> product, days |-> days, created_at |-> t,
              claimed |-> 0, claimed_by |-> NULL, grants |-> 0]
        ELSE O[i]]

\* SELECT ... WHERE email = $1 AND claimed = 0 ORDER BY created_at DESC LIMIT 1
get_pending_order_by_email(O, email) ==
    LET cand == {i \in DOMAIN O : O[i].email = email /\ O[i].claimed = 0}
    IN  {i \in cand : \A j \in cand : O[j].created_at <= O[i].created_at}

\* whether UPDATE ... WHERE id = $3 AND claimed = 0 answers "UPDATE 1"
ClaimWins(O, id) == id \in DOMAIN O /\ O[id].claimed = 0

claim_pending_order(O, id, discord_id) ==
    [i \in DOMAIN O |->
        IF i = id /\ O[i].claimed = 0
        THEN [O[i] EXCEPT !.claimed = 1, !.claimed_by = discord_id]
        ELSE O[i]]

LinkIdle ==
    [pc |-> "idle", flow |-> NULL, user |-> NULL, order |-> 0,
     granted |-> FALSE, won |-> FALSE]

AddPendingOrder(days) ==
    /\ \E id \in OrderIds :
          /\ id \notin DOMAIN orders
          /\ \A j \in OrderIds : j < id => j \in DOMAIN orders
          /\ orders' = add_pending_order(orders, id, "e1", "saints-shot", days, now)
    /\ UNCHANGED <<now, licenses, ext, ver, firstBind, purchases, red, exch, stat,
                   notifs, poll, sweep, tok, gen, dup, auth, link, cmd, referrals, ref, awards>>

\* /link (bot.py 1402-1420) or the callback (api.py 1283-1298): the order is read
LinkSelect(c, flow, user) ==
    /\ link[c].pc \in {"idle", "done"}
    /\ LET found == get_pending_order_by_email(orders, "e1")
       IN  IF found = {}
           THEN link' = [link EXCEPT ![c] = [LinkIdle EXCEPT !.pc = "done",
                                                !.flow = flow, !.user = user]]
           ELSE \E id \in found :
                   link' = [link EXCEPT ![c] = [LinkIdle EXCEPT !.pc = "grant",
                                                   !.flow = flow, !.user = user,
                                                   !.order = id]]
    /\ UNCHANGED <<now, licenses, ext, ver, firstBind, purchases, red, exch, stat,
                   notifs, poll, sweep, tok, gen, dup, auth, orders, cmd, referrals, ref, awards>>

\* bot.py 1428-1449: /link extends the owner's license for the product when
\* get_license_by_user finds one, and creates one otherwise;
\* api.py 1304-1309: the callback always creates one.  key is the generated key.
LinkGrant(c, key) ==
    /\ link[c].pc = "grant"
    /\ LET o == orders[link[c].order]
           existing == IF link[c].flow = "link"
                       THEN get_license_by_user(licenses, link[c].user, o.product)
                       ELSE {}
           target == LatestForProduct(licenses, link[c].user, o.product)
       IN  IF existing # {}
           THEN /\ \E k \in target :
                      licenses' = ExtendUpdate(licenses, k,
                                      NewExpiry(licenses[k].expires_at, now, o.days))
                /\ firstBind' = firstBind
                /\ orders' = [orders EXCEPT ![link[c].order].grants = @ + 1]
                /\ link' = [link EXCEPT ![c].pc = "claim", ![c].granted = TRUE]
           ELSE /\ licenses' = add_license(licenses, key, link[c].user,
                                           now + o.days, o.product, 0)
                /\ firstBind' = IF AddLicenseOk(licenses, key)
                                THEN [firstBind EXCEPT ![key] = NULL] ELSE firstBind
                /\ orders' = IF AddLicenseOk(licenses, key)
                             THEN [orders EXCEPT ![link[c].order].grants = @ + 1]
                             ELSE orders
                /\ link' = [link EXCEPT ![c].pc = "claim",
                                        ![c].granted = AddLicenseOk(licenses, key)]
    /\ UNCHANGED <<now, ext, ver, purchases, red, exch, stat, notifs, poll, sweep,
                   tok, gen, dup, auth, cmd, referrals, ref, awards>>

\* bot.py 1452, api.py 1312: claim_pending_order, its answer not looked at
LinkClaim(c) ==
    /\ link[c].pc = "claim"
    /\ orders' = claim_pending_order(orders, link[c].order, link[c].user)
    /\ link' = [link EXCEPT ![c].pc = "done",
                            ![c].won = ClaimWins(orders, link[c].order)]
    /\ UNCHANGED <<now, licenses, ext, ver, firstBind, purchases, red, exch, stat,
                   notifs, poll, sweep, tok, gen, dup, auth, cmd, referrals, ref, awards>>

-----------------------------------------------------------------------------
(* The mutating commands and POST /auth/discord when a statement raises
   because the datastore is unavailable.  The exception comes out of
   get_pool(), pool.acquire() or the statement itself; the store functions
   catch nothing but UniqueViolationError (add_license), so the statement
   that raised wrote nothing and the exception leaves the handler. *)

\* The last command: its name, its key or user argument, its reply, the
\* previous hwid shown by /reset-hwid; seq is history and tells two equal
\* commands in a row apart.
CmdIdle == [name |-> NULL, key |-> NULL, reply |-> NULL, prev |-> NULL, seq |-> 0]

\* bot.py lines 757-771: "has been revoked", "License not found", or the
\* exception of revoke_license reaching on_app_command_error
RevokeReply(L, key, db_ok) ==
    IF ~db_ok THEN "error" ELSE IF key \in DOMAIN L THEN "revoked" ELSE "not_found"

\* /revoke key=...
RevokeCommand(key, db_ok) ==
    /\ cmd' = [name |-> "revoke", key |-> key, reply |-> RevokeReply(licenses, key, db_ok),
               prev |-> NULL, seq |-> 1 - cmd.seq]
    /\ licenses' = IF db_ok THEN revoke_license(licenses, key) ELSE licenses
    /\ UNCHANGED <<now, ext, ver, firstBind, purchases, red, exch, stat, notifs, poll, sweep, tok, gen, dup, auth, orders, link, referrals, ref, awards>>

\* extend_license raises at its SELECT or at its UPDATE
ExtendRaises(c) ==
    /\ ext[c].pc \in {"idle", "none", "update"}
    /\ ext' = [ext EXCEPT ![c] = [ExtIdle EXCEPT !.pc = "raised"]]
    /\ UNCHANGED <<now, licenses, ver, firstBind, purchases, red, exch, stat, notifs, poll, sweep, tok, gen, dup, auth, orders, link, cmd, referrals, ref, awards>>

\* bot.py lines 2413-2421: "An error occurred: ..."
ExtendErrorReply(c) ==
    /\ ext[c].pc = "raised"
    /\ ext' = [ext EXCEPT ![c] = ExtIdle]
    /\ UNCHANGED <<now, licenses, ver, firstBind, purchases, red, exch, stat, notifs, poll, sweep, tok, gen, dup, auth, orders, link, cmd, referrals, ref, awards>>

\* A store call of the /exchange command or of the confirm button raises:
\* nothing after it runs, neither the rollback nor the result embed.
ExchangeRaises(d) ==
    /\ exch[d].pc \in {"cmd2", "confirm", "src_write", "tgt_select", "tgt_read",
                       "tgt_write", "rb_read", "rb_write", "tgt_create"}
    /\ exch' = [exch EXCEPT ![d] = [Cleared(d) EXCEPT !.pc = "raised"]]
    /\ UNCHANGED <<now, licenses, ext, ver, firstBind, purchases, red, stat, notifs, poll, sweep, tok, gen, dup, auth, orders, link, cmd, referrals, ref, awards>>

\* The exception is logged by the view or answered by on_app_command_error.
ExchangeErrorLogged(d) ==
    /\ exch[d].pc = "raised"
    /\ exch' = [exch EXCEPT ![d] = Cleared(d)]
    /\ UNCHANGED <<now, licenses, ext, ver, firstBind, purchases, red, stat, notifs, poll, sweep, tok, gen, dup, auth, orders, link, cmd, referrals, ref, awards>>

\* UPDATE licenses SET hwid = NULL WHERE discord_id = $1
reset_hwid_by_user(L, discord_id) ==
    [k \in DOMAIN L |->
        IF L[k].discord_id = discord_id THEN [L[k] EXCEPT !.hwid = NULL] ELSE L[k]]

\* /reset-hwid key=...: bot.py lines 1124-1147.  get_hwid_by_key returns None
\* for an unknown key and for an unbound license: "not bound to any hardware
\* yet", and nothing is written.
ResetHwidCommand(key) ==
    /\ LET current_hwid == IF key \in DOMAIN licenses THEN licenses[key].hwid ELSE NULL IN
         IF current_hwid = NULL
         THEN /\ cmd' = [name |-> "reset-hwid", key |-> key, reply |-> "not_bound",
                         prev |-> NULL, seq |-> 1 - cmd.seq]
              /\ UNCHANGED <<licenses, firstBind, referrals, ref, awards>>
         ELSE /\ cmd' = [name |-> "reset-hwid", key |-> key, reply |-> "reset",
                         prev |-> current_hwid, seq |-> 1 - cmd.seq]
              /\ licenses' = reset_hwid_by_key(licenses, key)
              /\ firstBind' = [firstBind EXCEPT ![key] = NULL]
    /\ UNCHANGED <<now, ext, ver, purchases, red, exch, stat, notifs, poll, sweep, tok, gen, dup, auth, orders, link, referrals, ref, awards>>

\* /reset-hwid user=...: bot.py lines 1148-1167
ResetHwidUserCommand(discord_id) ==
    /\ cmd' = [name |-> "reset-hwid", key |-> discord_id,
               reply |-> IF \E k \in DOMAIN licenses : licenses[k].discord_id = discord_id
                         THEN "reset" ELSE "no_licenses",
               prev |-> NULL, seq |-> 1 - cmd.seq]
    /\ licenses' = reset_hwid_by_user(licenses, discord_id)
    /\ firstBind' = [k \in Keys |->
                       IF k \in DOMAIN licenses /\ licenses[k].discord_id = discord_id
                       THEN NULL ELSE firstBind[k]]
    /\ UNCHANGED <<now, ext, ver, purchases, red, exch, stat, notifs, poll, sweep, tok, gen, dup, auth, orders, link, referrals, ref, awards>>

\* /extend key=... days=...: bot.py lines 820-823, one extend_license call run
\* to its end.  prev is history: the expires_at the call read.
ExtendCommand(key, days) ==
    /\ key \in DOMAIN licenses
          => NewExpiry(licenses[key].expires_at, now, days) \in -MaxExpiry..MaxExpiry
    /\ licenses' = IF key \in DOMAIN licenses
                   THEN ExtendUpdate(licenses, key,
                                     NewExpiry(licenses[key].expires_at, now, days))
                   ELSE licenses
    /\ cmd' = [name |-> "extend", key |-> key, days |-> days,
               reply |-> IF key \in DOMAIN licenses
                         THEN NewExpiry(licenses[key].expires_at, now, days) ELSE NULL,
               prev |-> IF key \in DOMAIN licenses THEN licenses[key].expires_at ELSE NULL,
               seq |-> 1 - cmd.seq]
    /\ UNCHANGED <<now, ext, ver, firstBind, purchases, red, exch, stat, notifs, poll, sweep, tok, gen, dup, auth, orders, link, referrals, ref, awards>>

AuthStoreErrorFailOpen(discord_id, product) ==
    [result |-> "token", token |-> generate_signed_token(discord_id, Timestamp(0), product)]

\* api.py lines 403-406: except Exception: HTTPException(500, "Database error")
AuthStoreError(discord_id, product) ==
    [result |-> "http_500", token |-> NoToken]

AuthRaised(c, discord_id, hwid, product, version) ==
    [pc |-> "raised", discord_id |-> discord_id, hwid |-> hwid, product |-> product,
     version |-> version, key |-> NULL, expires_at |-> 0,
     result |-> AuthStoreError(discord_id, product).result,
     token |-> AuthStoreError(discord_id, product).token]

\* The SELECT of line 325 raises; the product and version checks of lines
\* 299-320 passed before the datastore was used.
AuthRequestRaises(c, discord_id, hwid, product, version) ==
    /\ auth[c].pc \in {"idle", "done"}
    /\ AuthOutcome(licenses, now, NULL, hwid, product, version) = "no_subscription"
    /\ auth' = [auth EXCEPT ![c] = AuthRaised(c, discord_id, hwid, product, version)]
    /\ UNCHANGED <<now, licenses, ext, ver, firstBind, purchases, red, exch, stat, notifs, poll, sweep, tok, gen, dup, orders, link, cmd, referrals, ref, awards>>

\* The UPDATE of lines 371-379 raises
AuthBindRaises(c) ==
    /\ auth[c].pc = "bind"
    /\ auth' = [auth EXCEPT ![c] = AuthRaised(c, auth[c].discord_id, auth[c].hwid,
                                              auth[c].product, auth[c].version)]
    /\ UNCHANGED <<now, licenses, ext, ver, firstBind, purchases, red, exch, stat, notifs, poll, sweep, tok, gen, dup, orders, link, cmd, referrals, ref, awards>>

\* The 500 response is sent
AuthErrorSent(c) ==
    /\ auth[c].pc = "raised"
    /\ auth' = [auth EXCEPT ![c].pc = "done"]
    /\ UNCHANGED <<now, licenses, ext, ver, firstBind, purchases, red, exch, stat, notifs, poll, sweep, tok, gen, dup, orders, link, cmd, referrals, ref, awards>>

-----------------------------------------------------------------------------
(* database.py: referrals, has_been_referred_by, get_referral_count_received,
   add_referral; bot.py: /referral.  A command is cut after its license
   checks, after its reads of the referrals table, after each extension and
   after each INSERT; the statements between two cuts run as one step. *)

RefIds == {1, 2}
RefUsers == {"u1", "u2", "u3"}
RefProduct == "saints-shot"
MaxRefCalls == 2

MAX_REFERRALS == 5

\* REFERRAL_REWARDS.get(n, 2)
REFERRAL_REWARDS(n) == IF n = 1 THEN 7 ELSE 2

has_been_referred_by(R, referred_id, referrer_id, product) ==
    \E r \in R : r.referred_id = referred_id /\ r.referrer_id = referrer_id
                    /\ r.product = product

\* SELECT COUNT of the rows WHERE referred_id = $1 AND product = $2
get_referral_count_received(R, discord_id, product) ==
    Cardinality({r \in R : r.referred_id = discord_id /\ r.product = product})

\* The INSERT; UNIQUE(referrer_id, referred_id, product) makes it raise on a
\* second row of the pair, and add_referral then returns False.
add_referral(R, referrer_id, referred_id, days_awarded, product) ==
    IF has_been_referred_by(R, referred_id, referrer_id, product)
    THEN R
    ELSE R \cup {[referrer_id |-> referrer_id, referred_id |-> referred_id,
                  product |-> product, days_awarded |-> days_awarded]}

RefIdle ==
    [pc |-> "idle", calls |-> 0, user |-> <<NULL, NULL>>, gets |-> <<FALSE, FALSE>>,
     days |-> <<0, 0>>]

NoAwards ==
    [pair |-> [p \in RefUsers \X RefUsers |-> 0],
     n |-> [u \in RefUsers |-> 0],
     days |-> [u \in RefUsers |-> 0]]

\* The step a command takes after side i (1: user1 is awarded, 2: user2)
RefAfter(r, i) ==
    IF i = 1 /\ r.gets[2] THEN [r EXCEPT !.pc = "award2"]
    ELSE [RefIdle EXCEPT !.calls = r.calls]

\* lines 1752-1773: user1 = user2 is refused; both users need an active license
RefStart(c, user1, user2) ==
    /\ ref[c].pc = "idle"
    /\ ref[c].calls < MaxRefCalls
    /\ user1 # user2
    /\ ref' = [ref EXCEPT ![c] =
          IF /\ has_active_license_for_product(licenses, user1, RefProduct, now)
             /\ has_active_license_for_product(licenses, user2, RefProduct, now)
          THEN [RefIdle EXCEPT !.pc = "check", !.calls = ref[c].calls + 1,
                               !.user = <<user1, user2>>]
          ELSE [RefIdle EXCEPT !.calls = ref[c].calls + 1]]
    /\ UNCHANGED <<now, licenses, ext, ver, firstBind, purchases, red, exch, stat, notifs, poll, sweep, tok, gen, dup, auth, orders, link, cmd, referrals, awards>>

\* lines 1775-1812: the two has_been_referred_by, the two counts, and what
\* each user is to receive
RefCheck(c) ==
    /\ ref[c].pc = "check"
    /\ LET user1 == ref[c].user[1]
           user2 == ref[c].user[2]
           user1_referred_by_user2 == has_been_referred_by(referrals, user1, user2, RefProduct)
           user2_referred_by_user1 == has_been_referred_by(referrals, user2, user1, RefProduct)
           user1_times_referred == get_referral_count_received(referrals, user1, RefProduct)
           user2_times_referred == get_referral_count_received(referrals, user2, RefProduct)
           user1_gets_days == ~user1_referred_by_user2 /\ user1_times_referred < MAX_REFERRALS
           user2_gets_days == ~user2_referred_by_user1 /\ user2_times_referred < MAX_REFERRALS
       IN  ref' = [ref EXCEPT ![c] =
              IF ~user1_gets_days /\ ~user2_gets_days
              THEN [RefIdle EXCEPT !.calls = ref[c].calls]
              ELSE [ref[c] EXCEPT
                      !.pc = IF user1_gets_days THEN "award1" ELSE "award2",
                      !.gets = <<user1_gets_days, user2_gets_days>>,
                      !.days = <<IF user1_gets_days
                                 THEN REFERRAL_REWARDS(user1_times_referred + 1) ELSE 0,
                                 IF user2_gets_days
                                 THEN REFERRAL_REWARDS(user2_times_referred + 1) ELSE 0>>]]
    /\ UNCHANGED <<now, licenses, ext, ver, firstBind, purchases, red, exch, stat, notifs, poll, sweep, tok, gen, dup, auth, orders, link, cmd, referrals, awards>>

\* lines 1821-1822 and 1830-1831: extend_user_license_for_product for the
\* user of side i; None (no row of the user for the product) skips the INSERT
RefAward(c, i) ==
    /\ ref[c].pc = (IF i = 1 THEN "award1" ELSE "award2")
    /\ LET u == ref[c].user[i]
           other == ref[c].user[3 - i]
           S == LatestForProduct(licenses, u, RefProduct)
       IN  IF S = {}
           THEN /\ ref' = [ref EXCEPT ![c] = RefAfter(ref[c], i)]
                /\ UNCHANGED <<licenses, awards>>
           ELSE \E k \in S :
                /\ licenses' = ExtendUpdate(licenses, k,
                                   NewExpiry(licenses[k].expires_at, now, ref[c].days[i]))
                /\ awards' = [awards EXCEPT !.pair[<<other, u>>] = @ + 1,
                                            !.n[u] = @ + 1,
                                            !.days[u] = @ + ref[c].days[i]]
                /\ ref' = [ref EXCEPT ![c].pc = IF i = 1 THEN "record1" ELSE "record2"]
    /\ UNCHANGED <<now, ext, ver, firstBind, purchases, red, exch, stat, notifs, poll, sweep, tok, gen, dup, auth, orders, link, cmd, referrals>>

\* lines 1823 and 1832: add_referral(referrer, referred, days, product); its
\* return value is not looked at
RefRecord(c, i) ==
    /\ ref[c].pc = (IF i = 1 THEN "record1" ELSE "record2")
    /\ referrals' = add_referral(referrals, ref[c].user[3 - i], ref[c].user[i],
                                 ref[c].days[i], RefProduct)
    /\ ref' = [ref EXCEPT ![c] = RefAfter(ref[c], i)]
    /\ UNCHANGED <<now, licenses, ext, ver, firstBind, purchases, red, exch, stat, notifs, poll, sweep, tok, gen, dup, auth, orders, link, cmd, awards>>

-----------------------------------------------------------------------------
(* bot.py: /generate, /redeem and /link, each run to its end before the next
   command starts.  The three commands share one rule: when
   get_license_by_user finds a non-revoked license of the user for the
   product they call extend_user_license_for_product, otherwise add_license
   with a generated key. *)

\* a generated key: one that is not stored yet
KeySeq == <<"SAINT-k1", "SAINT-k2", "SAINT-k3">>

FreshKeys(L) ==
    {KeySeq[i] : i \in {i \in 1..Len(KeySeq) :
                           /\ KeySeq[i] \notin DOMAIN L
                           /\ \A j \in 1..(i - 1) : KeySeq[j] \in DOMAIN L}}

\* The tables the shared rule can leave: the extension goes to the row that
\* the SELECT of extend_user_license_for_product returns (no revoked filter).
Grants(L, t, discord_id, product, days, key, expires_at, pending_days) ==
    IF get_license_by_user(L, discord_id, product) # {}
    THEN {ExtendUpdate(L, k, NewExpiry(L[k].expires_at, t, days)) :
             k \in LatestForProduct(L, discord_id, product)}
    ELSE {add_license(L, key, discord_id, expires_at, product, pending_days)}

InRange(L) == \A k \in DOMAIN L : L[k].expires_at \in (0..MaxExpiry) \cup {Sentinel}

\* /generate user=... days=... product=...: bot.py lines 638-672
GenerateCommand(discord_id, days, product) ==
    /\ \E key \in FreshKeys(licenses) :
          \E G \in Grants(licenses, now, discord_id, product, days, key, now + days, 0) :
             /\ InRange(G)
             /\ licenses' = G
    /\ cmd' = [name |-> "generate", key |-> discord_id, reply |-> "done",
               prev |-> NULL, seq |-> 1 - cmd.seq]
    /\ UNCHANGED <<now, ext, ver, firstBind, purchases, red, exch, stat, notifs, poll, sweep, tok, gen, dup, auth, orders, link, referrals, ref, awards>>

\* /redeem email=...: bot.py lines 1517-1588; the purchase is marked by
\* redeem_by_email before the license is looked up
RedeemCommand(email, discord_id) ==
    /\ IF LatestUnredeemed(purchases, email) = {}
       THEN /\ UNCHANGED <<licenses, purchases>>
            /\ cmd' = [name |-> "redeem", key |-> discord_id, reply |-> "not_found",
                       prev |-> NULL, seq |-> 1 - cmd.seq]
       ELSE \E i \in LatestUnredeemed(purchases, email), key \in FreshKeys(licenses) :
              \E G \in Grants(licenses, now, discord_id, purchases[i].product,
                               purchases[i].days, key, Sentinel, purchases[i].days) :
                 /\ InRange(G)
                 /\ licenses' = G
                 /\ purchases' = Granted(Handed(MarkRedeemed(purchases, i, discord_id), i), i)
                 /\ cmd' = [name |-> "redeem", key |-> discord_id, reply |-> "done",
                            prev |-> NULL, seq |-> 1 - cmd.seq]
    /\ UNCHANGED <<now, ext, ver, firstBind, red, exch, stat, notifs, poll, sweep, tok, gen, dup, auth, orders, link, referrals, ref, awards>>

\* /link email=...: bot.py lines 1402-1452
LinkCommand(discord_id) ==
    /\ IF get_pending_order_by_email(orders, "e1") = {}
       THEN /\ UNCHANGED <<licenses, orders>>
            /\ cmd' = [name |-> "link", key |-> discord_id, reply |-> "not_found",
                       prev |-> NULL, seq |-> 1 - cmd.seq]
       ELSE \E id \in get_pending_order_by_email(orders, "e1"),
               key \in FreshKeys(licenses) :
              \E G \in Grants(licenses, now, discord_id, orders[id].product,
                               orders[id].days, key, now + orders[id].days, 0) :
                 /\ InRange(G)
                 /\ licenses' = G
                 /\ orders' = claim_pending_order(
                                  [orders EXCEPT ![id].grants = @ + 1], id, discord_id)
                 /\ cmd' = [name |-> "link", key |-> discord_id, reply |-> "done",
                            prev |-> NULL, seq |-> 1 - cmd.seq]
    /\ UNCHANGED <<now, ext, ver, firstBind, purchases, red, exch, stat, notifs, poll, sweep, tok, gen, dup, auth, link, referrals, ref, awards>>

-----------------------------------------------------------------------------
(* Specification of extend_license under concurrent store operations *)

\* SAINT-k2 is generated but never stored in this specification: the unknown key
ExtKeys == {"SAINT-k1", "SAINT-k2"}
InitExpiry == {1, 2}

InitExtend ==
    /\ now = 0
    /\ cmd = <<>>
    /\ referrals = <<>> /\ ref = <<>> /\ awards = <<>>
    /\ tok = <<>> /\ gen = <<>> /\ dup = <<>> /\ auth = <<>> /\ orders = <<>> /\ link = <<>>
    /\ \E e \in InitExpiry :
          licenses = [k \in {"SAINT-k1"} |-> NewRow("u1", "saints-shot", e, 0)]
    /\ ext = ExtInit
    /\ ver = <<>> /\ firstBind = FirstBindInit
    /\ purchases = <<>> /\ red = <<>> /\ exch = <<>> /\ stat = <<>>
    /\ notifs = <<>> /\ poll = <<>> /\ sweep = <<>>

NextExtend ==
    \/ Tick
    \/ \E d \in GrantDays : AddLicense("SAINT-k1", "u1", "saints-shot", d)
    \/ RevokeLicense("SAINT-k1")
    \/ DeleteLicense("SAINT-k1")
    \/ \E c \in ExtIds, k \in ExtKeys, d \in Deltas : ExtendRead(c, k, d)
    \/ \E c \in ExtIds : ExtendWrite(c)

SpecExtend == InitExtend /\ [][NextExtend]_vars

-----------------------------------------------------------------------------
(* Specification of /verify requests racing on one license *)

VerInit == [c \in VerIds |-> VerIdle]

InitVerify ==
    /\ now = 0
    /\ cmd = <<>>
    /\ referrals = <<>> /\ ref = <<>> /\ awards = <<>>
    /\ tok = <<>> /\ gen = <<>> /\ dup = <<>> /\ auth = <<>> /\ orders = <<>> /\ link = <<>>
    /\ licenses = [k \in {"SAINT-k1"} |-> NewRow("u1", "saints-shot", 1, 0)]
    /\ ver = VerInit
    /\ firstBind = FirstBindInit
    /\ ext = <<>> /\ purchases = <<>> /\ red = <<>> /\ exch = <<>> /\ stat = <<>>
    /\ notifs = <<>> /\ poll = <<>> /\ sweep = <<>>

NextVerify ==
    \/ Tick
    \/ RevokeLicense("SAINT-k1")
    \/ ResetHwid("SAINT-k1")
    \/ \E k \in {"SAINT-k1", "SAINT-k2", BadKey}, h \in Hwids \cup {NULL},
          q \in ClientParams, ok \in BOOLEAN :
            VerifyRequest(1, k, h, q[1], q[2], ok)
    \/ \E h \in Hwids : VerifyRequest(2, "SAINT-k1", h, NULL, 0, TRUE)
    \/ \E c \in VerIds : VerifyBind(c)
    \/ \E c \in VerIds : VerifyBindFails(c)

SpecVerify == InitVerify /\ [][NextVerify]_vars

-----------------------------------------------------------------------------
(* Specification of get_license_stats running beside store operations *)

InitStats ==
    /\ now = 0
    /\ cmd = <<>>
    /\ referrals = <<>> /\ ref = <<>> /\ awards = <<>>
    /\ tok = <<>> /\ gen = <<>> /\ dup = <<>> /\ auth = <<>> /\ orders = <<>> /\ link = <<>>
    /\ licenses = [k \in {"SAINT-k1"} |-> NewRow("u1", "saints-shot", 1, 0)]
    /\ stat = StatIdle
    /\ ext = ExtInit
    /\ ver = <<>> /\ firstBind = FirstBindInit
    /\ purchases = <<>> /\ red = <<>> /\ exch = <<>>
    /\ notifs = <<>> /\ poll = <<>> /\ sweep = <<>>

NextStats ==
    \/ Tick
    \/ \E p \in Products : AddLicense("SAINT-k2", "u1", p, 1)
    \/ \E k \in ExtKeys : RevokeLicense(k)
    \/ \E k \in ExtKeys : DeleteLicense(k)
    \/ ExtendRead(1, "SAINT-k1", 2)
    \/ ExtendWrite(1)
    \/ \E p \in Products \cup {NULL} : StatsTotal(p)
    \/ StatsActive
    \/ StatsRevoked
    \/ StatsExpired

SpecStats == InitStats /\ [][NextStats]_vars

-----------------------------------------------------------------------------
(* Specification of the notification queue: purchases queue records, the
   poller and any client of the notification endpoints record outcomes *)

InitNotif ==
    /\ now = 0
    /\ cmd = <<>>
    /\ referrals = <<>> /\ ref = <<>> /\ awards = <<>>
    /\ tok = <<>> /\ gen = <<>> /\ dup = <<>> /\ auth = <<>> /\ orders = <<>> /\ link = <<>>
    /\ notifs = NoRows
    /\ poll = PollIdle
    /\ licenses = NoRows
    /\ ext = <<>> /\ ver = <<>> /\ firstBind = FirstBindInit
    /\ purchases = <<>> /\ red = <<>> /\ exch = <<>>
    /\ stat = <<>> /\ sweep = <<>>

NextNotif ==
    \/ Tick
    \/ Enqueue
    \/ \E id \in NotifIds : ApiMarkDelivered(id)
    \/ \E id \in NotifIds : ApiMarkFailed(id)
    \/ PollPending
    \/ \E o \in {"delivered", "failed", "lost"} : PollDeliver(o)

SpecNotif == InitNotif /\ [][NextNotif]_vars

-----------------------------------------------------------------------------
(* Specification of the expiry sweep running beside store operations *)

InitSweep ==
    /\ now = 0
    /\ cmd = <<>>
    /\ referrals = <<>> /\ ref = <<>> /\ awards = <<>>
    /\ tok = <<>> /\ gen = <<>> /\ dup = <<>> /\ auth = <<>> /\ orders = <<>> /\ link = <<>>
    /\ licenses = [k \in {"SAINT-k1"} |-> NewRow("u1", "saints-shot", 1, 0)]
    /\ sweep = SweepIdle
    /\ ext = ExtInit
    /\ ver = <<>> /\ firstBind = FirstBindInit
    /\ purchases = <<>> /\ red = <<>> /\ exch = <<>>
    /\ stat = <<>> /\ notifs = <<>> /\ poll = <<>>

NextSweep ==
    \/ Tick
    \/ \E d \in GrantDays : AddLicense("SAINT-k2", "u1", "saints-shot", d)
    \/ \E k \in ExtKeys : RevokeLicense(k)
    \/ \E k \in ExtKeys : DeleteLicense(k)
    \/ ExtendRead(1, "SAINT-k1", 2)
    \/ ExtendWrite(1)
    \/ SweepStart
    \/ SweepRoleMissing
    \/ SweepCheckActive
    \/ SweepHook
    \/ SweepMark

SpecSweep == InitSweep /\ [][NextSweep]_vars

\* lines 115 and 148 inside the try of lines 86-151: a store call of the loop
\* body (has_active_license_for_product, mark_expiry_notified) raises; the
\* except of lines 150-151 logs it and the body returns.  A hook that ran
\* before the failure runs again in the next cycle; MaxHooks bounds the count.
MaxHooks == 2

SweepStoreRaises ==
    /\ sweep.pc \in {"next", "mark"}
    /\ \A k \in DOMAIN licenses : licenses[k].hook_calls < MaxHooks
    /\ sweep' = SweepIdle
    /\ UNCHANGED <<now, licenses, ext, ver, firstBind, purchases, red, exch, stat, notifs, poll, tok, gen, dup, auth, orders, link, cmd, referrals, ref, awards>>

NextSweepFail ==
    \/ NextSweep
    \/ SweepStoreRaises

SpecSweepFail == InitSweep /\ [][NextSweepFail]_vars

\* tasks.loop(minutes=5) starts the body again at every interval, and every
\* await of one iteration returns or raises, so each step of the sweep that
\* stays possible is eventually taken.
SweepFairness ==
    /\ WF_vars(SweepStart)
    /\ WF_vars(SweepRoleMissing \/ SweepCheckActive)
    /\ WF_vars(SweepHook)
    /\ WF_vars(SweepMark)

SpecSweepFair == InitSweep /\ [][NextSweep]_vars /\ SweepFairness

-----------------------------------------------------------------------------
(* Specification of /redeem calls carrying the same email *)

RedInit == [c \in RedIds |-> RedIdle]

InitRedeem ==
    /\ now = 0
    /\ cmd = <<>>
    /\ referrals = <<>> /\ ref = <<>> /\ awards = <<>>
    /\ tok = <<>> /\ gen = <<>> /\ dup = <<>> /\ auth = <<>> /\ orders = <<>> /\ link = <<>>
    /\ licenses = NoRows
    /\ purchases = NoRows
    /\ red = RedInit
    /\ ext = <<>> /\ ver = <<>> /\ firstBind = FirstBindInit
    /\ exch = <<>> /\ stat = <<>> /\ notifs = <<>> /\ poll = <<>> /\ sweep = <<>>

NextRedeem ==
    \/ Tick
    \/ \E e \in Emails : AddPurchase(e, "saints-shot", 1)
    \/ \E k \in ExtKeys : RevokeLicense(k)
    \/ \E k \in ExtKeys : DeleteLicense(k)
    \/ \E c \in RedIds, e \in Emails, u \in Owners : RedeemSelect(c, e, u)
    \/ \E c \in RedIds : RedeemMark(c)
    \/ \E c \in RedIds : RedeemLookup(c)
    \/ \E c \in RedIds : RedeemExtSelect(c)
    \/ \E c \in RedIds : RedeemExtRead(c)
    \/ \E c \in RedIds : RedeemExtWrite(c)
    \/ \E c \in RedIds, k \in ExtKeys : RedeemCreate(c, k)

SpecRedeem == InitRedeem /\ [][NextRedeem]_vars

-----------------------------------------------------------------------------
(* Specification of one owner's exchange dialogs running beside store
   operations *)

ExchInit == [d \in ExchIds |-> ExchIdle]

InitExchange ==
    /\ now = 0
    /\ cmd = <<>>
    /\ referrals = <<>> /\ ref = <<>> /\ awards = <<>>
    /\ tok = <<>> /\ gen = <<>> /\ dup = <<>> /\ auth = <<>> /\ orders = <<>> /\ link = <<>>
    /\ \E withTarget \in BOOLEAN :
          licenses = [k \in (IF withTarget THEN {"SAINT-k1", "SAINT-k2"} ELSE {"SAINT-k1"}) |->
                        IF k = "SAINT-k1" THEN NewRow(ExchUser, "saints-shot", 3, 0)
                        ELSE NewRow(ExchUser, "saintx", 2, 0)]
    /\ exch = ExchInit
    /\ ext = <<>> /\ ver = <<>> /\ firstBind = FirstBindInit
    /\ purchases = <<>> /\ red = <<>>
    /\ stat = <<>> /\ notifs = <<>> /\ poll = <<>> /\ sweep = <<>>

NextExchange ==
    \/ Tick
    \/ \E k \in ExtKeys : DeleteLicense(k)
    \/ \E d \in ExchIds : ExchangeCommand1(d)
    \/ \E d \in ExchIds : ExchangeCommand2(d)
    \/ \E p \in Products, r \in Requested : ExchangeSubmit(1, p, r)
    \/ \E r \in Requested : ExchangeSubmit(2, "saintx", r)
    \/ \E d \in ExchIds : ConfirmReduceRead(d)
    \/ \E d \in ExchIds : ConfirmReduceWrite(d)
    \/ \E d \in ExchIds : ConfirmTargetSelect(d)
    \/ \E d \in ExchIds : ConfirmTargetRead(d)
    \/ \E d \in ExchIds : ConfirmTargetWrite(d)
    \/ \E d \in ExchIds : ConfirmRollbackRead(d)
    \/ \E d \in ExchIds : ConfirmRollbackWrite(d)
    \/ \E d \in ExchIds, k \in ExtKeys : ConfirmCreate(d, k)

SpecExchange == InitExchange /\ [][NextExchange]_vars

-----------------------------------------------------------------------------
(* Specification of the token codec: a token is issued, possibly changed in
   one character of the signature, and verified *)

RestIdle ==
    /\ now = 0
    /\ cmd = <<>>
    /\ referrals = <<>> /\ ref = <<>> /\ awards = <<>>
    /\ licenses = NoRows
    /\ firstBind = FirstBindInit
    /\ ext = <<>> /\ ver = <<>> /\ purchases = <<>> /\ red = <<>> /\ exch = <<>>
    /\ stat = <<>> /\ notifs = <<>> /\ poll = <<>> /\ sweep = <<>>

InitToken ==
    /\ RestIdle
    /\ tok = TokIdle
    /\ gen = <<>> /\ dup = <<>> /\ auth = <<>> /\ orders = <<>> /\ link = <<>>

NextToken ==
    \/ \E s \in Secrets, u \in Uids, d \in IssueDays, n \in Names, x \in Nonces,
          t0 \in IssueTicks : Issue(s, u, d, n, x, t0)
    \/ \E i \in 1..SigLen, c \in TamperChars : Tamper(i, c)
    \/ \E t \in VerifyTicks(tok.expires_at) : VerifyKey(t)

SpecToken == InitToken /\ [][NextToken]_vars

-----------------------------------------------------------------------------
(* Specification of add_license called with fresh and with stored keys *)

InitCreate ==
    /\ RestIdle
    /\ gen = GenIdle
    /\ tok = <<>> /\ dup = <<>> /\ auth = <<>> /\ orders = <<>> /\ link = <<>>

NextCreate ==
    \/ Tick
    \/ \E k \in ExtKeys, o \in Owners, p \in Products, d \in GrantDays :
          CreateLicense(k, o, p, d)
    \/ \E k \in ExtKeys : RevokeLicense(k)
    \/ \E k \in ExtKeys : DeleteLicense(k)

SpecCreate == InitCreate /\ [][NextCreate]_vars

-----------------------------------------------------------------------------
(* Specification of cleanup_duplicate_licenses running beside store
   operations *)

InitCleanup ==
    /\ RestIdle
    /\ dup = CleanupIdle
    /\ tok = <<>> /\ gen = <<>> /\ auth = <<>> /\ orders = <<>> /\ link = <<>>

NextCleanup ==
    \/ Tick
    \/ \E k \in Keys, d \in GrantDays : AddLicense(k, "u1", "saints-shot", d)
    \/ AddLicense("SAINT-k3", "u1", "saintx", 1)
    \/ \E k \in {"SAINT-k1", "SAINT-k3"} : RevokeLicense(k)
    \/ CleanupStart
    \/ CleanupSelect
    \/ CleanupDelete
    \/ CleanupReturn

SpecCleanup == InitCleanup /\ [][NextCleanup]_vars

-----------------------------------------------------------------------------
(* Specification of /auth/discord requests of one owner beside store
   operations *)

\* The product and version parameters a client sends
AuthParams == {<<NULL, 0>>, <<"saints-shot", 2>>, <<"saints-shot", 1>>, <<"saintx", 2>>}

InitAuth ==
    /\ RestIdle
    /\ auth = [c \in AuthIds |-> AuthIdle]
    /\ tok = <<>> /\ gen = <<>> /\ dup = <<>> /\ orders = <<>> /\ link = <<>>

NextAuth ==
    \/ Tick
    \/ \E k \in ExtKeys, d \in GrantDays : AddLicense(k, "u1", "saints-shot", d)
    \/ AddLicense("SAINT-k2", "u2", "saints-shot", 1)
    \/ RevokeLicense("SAINT-k1")
    \/ ResetHwid("SAINT-k1")
    \/ \E h \in Hwids \cup {NULL}, q \in AuthParams : AuthRequest(1, "u1", h, q[1], q[2])
    \/ \E h \in Hwids : AuthRequest(2, "u1", h, "saints-shot", 2)
    \/ \E c \in AuthIds : AuthBind(c)

SpecAuth == InitAuth /\ [][NextAuth]_vars

-----------------------------------------------------------------------------
(* Specification of /link commands and OAuth callbacks carrying the same
   email *)

InitLink ==
    /\ RestIdle
    /\ orders = NoRows
    /\ link = [c \in LinkIds |-> LinkIdle]
    /\ tok = <<>> /\ gen = <<>> /\ dup = <<>> /\ auth = <<>>

NextLink ==
    \/ Tick
    \/ \E d \in GrantDays : AddPendingOrder(d)
    \/ \E c \in LinkIds, f \in {"link", "oauth"} : LinkSelect(c, f, "u1")
    \/ \E c \in LinkIds, k \in ExtKeys : LinkGrant(c, k)
    \/ \E c \in LinkIds : LinkClaim(c)

SpecLink == InitLink /\ [][NextLink]_vars

-----------------------------------------------------------------------------
(* Specification of one exchange dialog of an owner whose licenses are
   issued, revoked and deleted meanwhile *)

NextTarget ==
    \/ Tick
    \/ \E d \in GrantDays : AddLicense("SAINT-k3", ExchUser, "saintx", d)
    \/ \E k \in {"SAINT-k2", "SAINT-k3"} : RevokeLicense(k)
    \/ DeleteLicense("SAINT-k2")
    \/ ExchangeCommand1(1)
    \/ ExchangeCommand2(1)
    \/ \E p \in Products, r \in Requested : ExchangeSubmit(1, p, r)
    \/ ConfirmReduceRead(1)
    \/ ConfirmReduceWrite(1)
    \/ ConfirmTargetSelect(1)
    \/ ConfirmTargetRead(1)
    \/ ConfirmTargetWrite(1)
    \/ ConfirmRollbackRead(1)
    \/ ConfirmRollbackWrite(1)
    \/ \E k \in {"SAINT-k2", "SAINT-k3"} : ConfirmCreate(1, k)

SpecTarget == InitExchange /\ [][NextTarget]_vars

-----------------------------------------------------------------------------
(* Specification of the mutating commands and the identity exchange with a
   datastore that may fail at any statement *)

InitOutage ==
    /\ now = 0
    /\ cmd = CmdIdle
    /\ referrals = <<>> /\ ref = <<>> /\ awards = <<>>
    /\ \E withTarget \in BOOLEAN :
          licenses = [k \in (IF withTarget THEN {"SAINT-k1", "SAINT-k2"} ELSE {"SAINT-k1"}) |->
                        IF k = "SAINT-k1" THEN NewRow(ExchUser, "saints-shot", 3, 0)
                        ELSE NewRow(ExchUser, "saintx", 2, 0)]
    /\ ext = ExtInit
    /\ exch = ExchInit
    /\ auth = [c \in AuthIds |-> AuthIdle]
    /\ firstBind = FirstBindInit
    /\ ver = <<>> /\ purchases = <<>> /\ red = <<>> /\ stat = <<>> /\ notifs = <<>>
    /\ poll = <<>> /\ sweep = <<>> /\ tok = <<>> /\ gen = <<>> /\ dup = <<>>
    /\ orders = <<>> /\ link = <<>>

NextOutage ==
    \/ \E db_ok \in BOOLEAN : RevokeCommand("SAINT-k1", db_ok)
    \/ ExtendRead(1, "SAINT-k1", 1)
    \/ ExtendWrite(1)
    \/ ExtendRaises(1)
    \/ ExtendErrorReply(1)
    \/ ExchangeCommand1(1) \/ ExchangeCommand2(1)
    \/ ExchangeSubmit(1, "saintx", 2)
    \/ ConfirmReduceRead(1) \/ ConfirmReduceWrite(1) \/ ConfirmTargetSelect(1)
    \/ ConfirmTargetRead(1) \/ ConfirmTargetWrite(1)
    \/ ConfirmCreate(1, "SAINT-k3")
    \/ ExchangeRaises(1)
    \/ ExchangeErrorLogged(1)
    \/ AuthRequest(1, ExchUser, "A", "saints-shot", 2)
    \/ AuthBind(1)
    \/ AuthRequestRaises(1, ExchUser, "A", "saints-shot", 2)
    \/ AuthBindRaises(1)
    \/ AuthErrorSent(1)

SpecOutage == InitOutage /\ [][NextOutage]_vars

-----------------------------------------------------------------------------
(* Specification of /reset-hwid running beside GET /verify requests *)

InitReset ==
    /\ now = 0
    /\ cmd = CmdIdle
    /\ referrals = <<>> /\ ref = <<>> /\ awards = <<>>
    /\ licenses = [k \in {"SAINT-k1", "SAINT-k2"} |->
                     IF k = "SAINT-k1" THEN NewRow("u1", "saints-shot", 1, 0)
                     ELSE NewRow("u1", "saintx", 2, 0)]
    /\ ver = VerInit
    /\ firstBind = FirstBindInit
    /\ ext = <<>> /\ purchases = <<>> /\ red = <<>> /\ exch = <<>> /\ stat = <<>>
    /\ notifs = <<>> /\ poll = <<>> /\ sweep = <<>> /\ tok = <<>> /\ gen = <<>>
    /\ dup = <<>> /\ auth = <<>> /\ orders = <<>> /\ link = <<>>

NextReset ==
    \/ Tick
    \/ RevokeLicense("SAINT-k2")
    \/ \E k \in {"SAINT-k1", "SAINT-k3"} : ResetHwidCommand(k)
    \/ \E u \in Owners : ResetHwidUserCommand(u)
    \/ \E k \in {"SAINT-k1", "SAINT-k2"}, h \in Hwids, ok \in BOOLEAN :
          VerifyRequest(1, k, h, NULL, 0, ok)
    \/ VerifyRequest(2, "SAINT-k1", "B", "saints-shot", 2, TRUE)
    \/ \E c \in VerIds : VerifyBind(c)
    \/ \E c \in VerIds : VerifyBindFails(c)

SpecReset == InitReset /\ [][NextReset]_vars

-----------------------------------------------------------------------------
(* Specification of /referral commands running side by side *)

InitReferral ==
    /\ now = 0
    /\ cmd = <<>>
    /\ licenses = [k \in Keys |-> NewRow(IF k = "SAINT-k1" THEN "u1"
                                          ELSE IF k = "SAINT-k2" THEN "u2" ELSE "u3",
                                          RefProduct, 1, 0)]
    /\ referrals = {}
    /\ ref = [c \in RefIds |-> RefIdle]
    /\ awards = NoAwards
    /\ firstBind = FirstBindInit
    /\ ext = <<>> /\ ver = <<>> /\ purchases = <<>> /\ red = <<>> /\ exch = <<>>
    /\ stat = <<>> /\ notifs = <<>> /\ poll = <<>> /\ sweep = <<>> /\ tok = <<>>
    /\ gen = <<>> /\ dup = <<>> /\ auth = <<>> /\ orders = <<>> /\ link = <<>>

NextReferral ==
    \/ DeleteLicense("SAINT-k3")
    \/ \E u \in {"u2", "u3"} : RefStart(1, "u1", u)
    \/ \E u \in {"u2", "u3"} : RefStart(2, "u1", u)
    \/ \E c \in RefIds : RefCheck(c)
    \/ \E c \in RefIds, i \in {1, 2} : RefAward(c, i)
    \/ \E c \in RefIds, i \in {1, 2} : RefRecord(c, i)

SpecReferral == InitReferral /\ [][NextReferral]_vars

-----------------------------------------------------------------------------
(* Specification of /extend commands run one after the other on one license,
   at any instant and from any stored expiry *)

InitInverse ==
    /\ now \in 0..MaxTime
    /\ cmd = CmdIdle
    /\ referrals = <<>> /\ ref = <<>> /\ awards = <<>>
    /\ \E e \in 0..MaxExpiry :
          licenses = [k \in {"SAINT-k1"} |-> NewRow("u1", "saints-shot", e, 0)]
    /\ firstBind = FirstBindInit
    /\ ext = <<>> /\ ver = <<>> /\ purchases = <<>> /\ red = <<>> /\ exch = <<>>
    /\ stat = <<>> /\ notifs = <<>> /\ poll = <<>> /\ sweep = <<>> /\ tok = <<>>
    /\ gen = <<>> /\ dup = <<>> /\ auth = <<>> /\ orders = <<>> /\ link = <<>>

NextInverse ==
    \E k \in ExtKeys, d \in Deltas : ExtendCommand(k, d)

SpecInverse == InitInverse /\ [][NextInverse]_vars

-----------------------------------------------------------------------------
(* Specification of the exchange dialogs of an owner whose saints-shot license
   was created by /redeem (placeholder expiry, pending_days set) or generated
   with an expiry *)

InitPending ==
    /\ now = 0
    /\ cmd = <<>>
    /\ referrals = <<>> /\ ref = <<>> /\ awards = <<>>
    /\ tok = <<>> /\ gen = <<>> /\ dup = <<>> /\ auth = <<>> /\ orders = <<>> /\ link = <<>>
    /\ \E withTarget \in BOOLEAN, redeemed \in BOOLEAN :
          LET source == IF redeemed
                        THEN add_license(NoRows, "SAINT-k1", ExchUser, Sentinel,
                                         "saints-shot", 1)
                        ELSE add_license(NoRows, "SAINT-k1", ExchUser, 3, "saints-shot", 0)
          IN  licenses = IF withTarget
                         THEN add_license(source, "SAINT-k2", ExchUser, 2, "saintx", 0)
                         ELSE source
    /\ exch = ExchInit
    /\ ext = <<>> /\ ver = <<>> /\ firstBind = FirstBindInit
    /\ purchases = <<>> /\ red = <<>>
    /\ stat = <<>> /\ notifs = <<>> /\ poll = <<>> /\ sweep = <<>>

SpecPending == InitPending /\ [][NextExchange]_vars

-----------------------------------------------------------------------------
(* Specification of the expiry sweep beside a renewal: the license that
   expires at 1 is extended by one unit, so that it can expire a second time *)

NextRenew ==
    \/ Tick
    \/ \E k \in ExtKeys : RevokeLicense(k)
    \/ \E k \in ExtKeys : DeleteLicense(k)
    \/ ExtendRead(1, "SAINT-k1", 1)
    \/ ExtendWrite(1)
    \/ SweepStart
    \/ SweepRoleMissing
    \/ SweepCheckActive
    \/ SweepHook
    \/ SweepMark

SpecRenewFair == InitSweep /\ [][NextRenew]_vars /\ SweepFairness

-----------------------------------------------------------------------------
(* Specification of /generate, /redeem, /link and /revoke run one after the
   other at one instant, starting from an empty licenses table *)

InitOwner ==
    /\ now = 0
    /\ cmd = CmdIdle
    /\ referrals = <<>> /\ ref = <<>> /\ awards = <<>>
    /\ licenses = NoRows
    /\ purchases = NoRows
    /\ orders = NoRows
    /\ firstBind = FirstBindInit
    /\ ext = <<>> /\ ver = <<>> /\ red = <<>> /\ exch = <<>>
    /\ stat = <<>> /\ notifs = <<>> /\ poll = <<>> /\ sweep = <<>> /\ tok = <<>>
    /\ gen = <<>> /\ dup = <<>> /\ auth = <<>> /\ link = <<>>

NextOwner ==
    \/ \E e \in Emails : AddPurchase(e, "saints-shot", 1)
    \/ AddPendingOrder(1)
    \/ \E d \in GrantDays : GenerateCommand("u1", d, "saints-shot")
    \/ \E e \in Emails : RedeemCommand(e, "u1")
    \/ LinkCommand("u1")
    \/ \E k \in ExtKeys : RevokeCommand(k, TRUE)

SpecOwner == InitOwner /\ [][NextOwner]_vars

-----------------------------------------------------------------------------
(* Properties *)

\* C5: for every product filter and for none, the counts returned by Stats
\* satisfy active + expired + revoked = total, also when rows are created,
\* revoked, extended or deleted while the Stats call runs.
C5_StatsPartition ==
    stat.pc = "done" => stat.active + stat.expired + stat.revoked = stat.total

\* C3: for every license, once hwid holds a value, no verification call changes
\* it to a different value: hwid leaves a non-null value only through NULL
\* (an explicit reset), in every interleaving of /verify calls on the key.
C3_HwidNeverOverwritten ==
    [][\A k \in DOMAIN licenses \cap DOMAIN licenses' :
          licenses[k].hwid # NULL => licenses'[k].hwid \in {licenses[k].hwid, NULL}]_vars

\* C4: first-bind-wins: once a Verify with hwid A has bound an unbound license
\* and no reset has happened since, a later Verify on the still valid license
\* succeeds when it presents A and fails with hwid_mismatch when it presents
\* another hwid.
C4_FirstBindWins ==
    \A c \in VerIds :
        (/\ ver[c].pc = "done"
         /\ ver[c].first # NULL
         /\ ver[c].hwid # NULL
         /\ ver[c].result \in {"active", "activated", "hwid_mismatch"})
        => IF ver[c].hwid = ver[c].first
           THEN ver[c].result = "active"
           ELSE ver[c].result = "hwid_mismatch"

\* C6: Extend(key, deltaDays) on an existing license returns and stores
\* max(currentExpiresAt, now) + deltaDays when deltaDays > 0 and
\* currentExpiresAt + deltaDays when deltaDays < 0; on an unknown key it
\* returns NotFound and changes nothing.
C6_ExtendRule ==
    [][\A c \in ExtIds :
        /\ (ext[c].pc # "update" /\ ext'[c].pc = "update") =>
              LET k == ext'[c].key
                  d == ext'[c].days
              IN /\ k \in DOMAIN licenses
                 /\ d > 0 => ext'[c].result =
                       (IF licenses[k].expires_at >= now THEN licenses[k].expires_at ELSE now) + d
                 /\ d < 0 => ext'[c].result = licenses[k].expires_at + d
        /\ (ext[c].pc = "update" /\ ext'[c].pc # "update") =>
              LET k == ext[c].key
              IN /\ k \in DOMAIN licenses =>
                      /\ k \in DOMAIN licenses'
                      /\ licenses'[k].expires_at = ext[c].result
                 /\ \A j \in DOMAIN licenses \ {k} : licenses'[j] = licenses[j]
                 /\ DOMAIN licenses' = DOMAIN licenses
        /\ (ext'[c].pc = "none" /\ ext'[c] # ext[c]) =>
              /\ ext'[c].key \notin DOMAIN licenses
              /\ licenses' = licenses
    ]_vars

\* C6 witness: a call extending an already expired license by d > 0 holds
\* now + d as the value it is about to store and return.
C6_Witness ==
    \E c \in ExtIds :
        /\ ext[c].pc = "update"
        /\ ext[c].days > 0
        /\ ext[c].key \in DOMAIN licenses
        /\ licenses[ext[c].key].expires_at < now
        /\ ext[c].result = now + ext[c].days

\* C9: a notification record that failed 5 times does not appear in
\* PollPending and appears (once) in the failed query, and stays there.
C9_ExhaustedStaysFailed ==
    \A id \in DOMAIN notifs :
        notifs[id].delivery_attempts >= MaxAttempts
            => id \notin PendingIds(notifs) /\ id \in FailedIds(notifs)

C2_PurchaseConsumedOnce ==
    \A i \in DOMAIN purchases : purchases[i].handed <= 1 /\ purchases[i].granted <= 1

\* C1: when the target-license mutation of an exchange fails after the
\* source license was reduced, then on return the source's remaining balance
\* equals its balance before the attempt and no target time was credited.
C1_FailedExchangeRestoresSource ==
    [][\A d \in ExchIds :
          (exch[d].pc \in {"tgt_create", "rb_read", "rb_write"} /\ exch'[d].pc = "failed")
             => /\ exch[d].source_key \in DOMAIN licenses'
                /\ Available(licenses'[exch[d].source_key].expires_at, now)
                      = Available(exch[d].before, now)
                /\ \A k \in DOMAIN licenses' \ {exch[d].source_key} :
                      k \in DOMAIN licenses /\ licenses'[k] = licenses[k]]_vars

\* C7: an exchange whose requested duration exceeds the balance the source
\* license has when the exchange is applied changes no license.
C7_NoExchangeBeyondBalance ==
    [][\A d \in ExchIds :
          (exch[d].pc = "src_write" /\ exch'[d].pc # "src_write"
             /\ exch[d].source_key \in DOMAIN licenses)
             => exch[d].source_seconds
                   <= Available(licenses[exch[d].source_key].expires_at, now)]_vars

\* C8: exchanging the full available balance credits available * r to the
\* target (to the nearest clock unit) and leaves the source's expiry at the
\* moment of the exchange, not before it.
C8_FullExchangeZeroesSource ==
    [][\A d \in ExchIds :
          (exch[d].pc = "confirm" /\ exch'[d].pc = "src_write" /\ exch[d].full)
             => /\ exch'[d].result >= now
                /\ LET num == IF exch[d].target = "saintx" THEN 2 ELSE 3
                       den == IF exch[d].target = "saintx" THEN 3 ELSE 2
                       err == den * exch[d].target_seconds - num * exch[d].source_seconds
                   IN  2 * err <= den /\ -2 * err <= den]_vars

\* C11: fail-open.  When the datastore does not answer a verification call
\* for a well-formed key (a call that gets as far as the datastore: the
\* client-version check precedes it), the call returns valid ("db_error")
\* and no license is changed.
C11_FailOpen ==
    [][\A c \in VerIds :
          (/\ ver'[c] # ver[c] /\ ver'[c].pc = "done" /\ ver'[c].db = "down"
           /\ ver'[c].key # BadKey
           /\ (ver'[c].product = NULL
                 \/ check_version_allowed(ver'[c].product, ver'[c].version)))
             => ver'[c].result = "db_error" /\ licenses' = licenses]_vars

\* C11 witness: the datastore failed during a call on a revoked license and
\* the call was answered valid.
C11_Witness ==
    \E c \in VerIds :
        /\ ver[c].pc = "done" /\ ver[c].db = "down" /\ ver[c].result = "db_error"
        /\ ver[c].key \in DOMAIN licenses /\ licenses[ver[c].key].revoked = 1

\* C16: with the store reachable, /verify answers valid (active, or on the
\* way to activated) exactly when the key is well-formed, the version is
\* allowed, the row exists, matches the product when one is given, is not
\* revoked, is not expired (expires_at not in the past) and its hwid is null
\* or the presented one (or none is presented); otherwise it answers the
\* first applicable of invalid_format, update_required, not_found,
\* wrong_product, revoked, expired, hwid_mismatch.  The row is the one the
\* request read.
C16_VerifyDecision ==
    [][\A c \in VerIds :
          (ver[c].pc \in {"idle", "done"} /\ ver'[c] # ver[c] /\ ver'[c].db = "up")
             => LET key == ver'[c].key
                    hwid == ver'[c].hwid
                    product == ver'[c].product
                    exists == key \in DOMAIN licenses
                    wellFormed == key # BadKey
                    versionOk == product = NULL \/ check_version_allowed(product, ver'[c].version)
                    productOk == product = NULL \/ licenses[key].product = product
                    notRevoked == licenses[key].revoked = 0
                    notExpired == licenses[key].expires_at >= now
                    hwidOk == hwid = NULL \/ licenses[key].hwid \in {NULL, hwid}
                    valid == ver'[c].pc = "bind"
                               \/ (ver'[c].pc = "done" /\ ver'[c].result = "active")
                IN  IF ~wellFormed THEN ~valid /\ ver'[c].result = "invalid_format"
                    ELSE IF ~versionOk THEN ~valid /\ ver'[c].result = "update_required"
                    ELSE IF ~exists THEN ~valid /\ ver'[c].result = "not_found"
                    ELSE IF ~productOk THEN ~valid /\ ver'[c].result = "wrong_product"
                    ELSE IF ~notRevoked THEN ~valid /\ ver'[c].result = "revoked"
                    ELSE IF ~notExpired THEN ~valid /\ ver'[c].result = "expired"
                    ELSE IF ~hwidOk THEN ~valid /\ ver'[c].result = "hwid_mismatch"
                    ELSE valid]_vars

\* C16 witness: a request with an allowed version for the right product was
\* answered expired, and the license is also bound to another fingerprint.
C16_Witness ==
    \E c \in VerIds :
        /\ ver[c].pc = "done" /\ ver[c].db = "up" /\ ver[c].result = "expired"
        /\ ver[c].product # NULL /\ ver[c].hwid # NULL
        /\ ver[c].key \in DOMAIN licenses
        /\ licenses[ver[c].key].hwid \notin {NULL, ver[c].hwid}

\* C19: a request that gets as far as the binding check (store reachable,
\* row found, product matches, not revoked, not expired) and presents a
\* fingerprint different from the hwid of the row it read is answered
\* hwid_mismatch, and no field of any license changes.
C19_MismatchNoMutation ==
    [][\A c \in VerIds :
          (/\ ver[c].pc \in {"idle", "done"} /\ ver'[c] # ver[c] /\ ver'[c].db = "up"
           /\ ver'[c].key \in DOMAIN licenses
           /\ ver'[c].product \in {NULL, licenses[ver'[c].key].product}
           /\ (ver'[c].product = NULL
                 \/ check_version_allowed(ver'[c].product, ver'[c].version))
           /\ licenses[ver'[c].key].revoked = 0
           /\ licenses[ver'[c].key].expires_at >= now
           /\ ver'[c].hwid # NULL
           /\ licenses[ver'[c].key].hwid \notin {NULL, ver'[c].hwid})
             => /\ ver'[c].pc = "done" /\ ver'[c].result = "hwid_mismatch"
                /\ licenses' = licenses]_vars

\* C19 witness: a request was answered hwid_mismatch on a live license bound
\* to another fingerprint.
C19_Witness ==
    \E c \in VerIds :
        /\ ver[c].pc = "done" /\ ver[c].result = "hwid_mismatch"
        /\ ver[c].key \in DOMAIN licenses
        /\ licenses[ver[c].key].revoked = 0 /\ licenses[ver[c].key].expires_at >= now
        /\ licenses[ver[c].key].hwid \notin {NULL, ver[c].hwid}

\* C12: token round trip.  A token verified unchanged under the secret it
\* was issued with is valid at every instant up to the expires_at that
\* generate_license_key returned, and expired (no other outcome) after it.
C12_TokenRoundTrip ==
    (tok.pc = "verified" /\ tok.presented = tok.key)
        => IF tok.at <= tok.expires_at
               THEN tok.result = "valid"
               ELSE tok.result = "expired"

\* C13 as stated: a token with one character of its signature segment
\* changed is answered invalid_signature.
C13_TamperInvalidSignature ==
    (tok.pc = "verified" /\ tok.presented # tok.key)
        => tok.result = "invalid_signature"

\* C13, the part that holds: a token with one character of its signature
\* segment changed is never answered valid or expired; the answer is
\* invalid_signature whenever the changed token still has three parts
\* between its dashes and an ASCII signature, and a format or verification
\* error otherwise.
C13_TamperRejected ==
    (tok.pc = "verified" /\ tok.presented # tok.key)
        => /\ tok.result \in {"invalid_signature", "invalid_format", "error"}
           /\ (Len(split(tok.presented, Dash)) = 3 /\ IsAscii(tok.presented))
                  => tok.result = "invalid_signature"

\* C13 witness: a token changed in its signature was verified before its
\* expiry and answered invalid_signature.
C13_Witness ==
    /\ tok.pc = "verified"
    /\ tok.presented # tok.key
    /\ tok.at <= tok.expires_at
    /\ tok.result = "invalid_signature"

\* C14: add_license with a key that is already stored returns failure and
\* leaves the table, the stored row included, as it was; with a key that is
\* not stored it returns success and adds that one row, every other row
\* untouched.  There is one row per key before and after.
C14_CreateExistingFails ==
    [][(gen' # gen)
          => IF gen'.key \in DOMAIN licenses
                 THEN gen'.ok = FALSE /\ licenses' = licenses
                 ELSE /\ gen'.ok = TRUE
                      /\ DOMAIN licenses' = DOMAIN licenses \cup {gen'.key}
                      /\ \A k \in DOMAIN licenses : licenses'[k] = licenses[k]]_vars

\* C14 witness: add_license was refused on a key whose stored row is revoked
\* and already past its expiry, and the row is still there.
C14_Witness ==
    /\ gen.ok = FALSE
    /\ gen.key \in DOMAIN licenses
    /\ licenses[gen.key].revoked = 1
    /\ licenses[gen.key].expires_at < now

\* C15: a run of cleanup_duplicate_licenses that no other statement
\* interleaved with leaves, for every (owner, product) group that had N > 1
\* non-revoked licenses when it began, exactly one of them, one with the
\* latest expires_at, unchanged; the other N-1 are gone from the table and
\* the report carries N-1 for the group.  Revoked rows and the rows of
\* groups with at most one non-revoked license are as they were, and the
\* total reported is the number of rows that went.
C15_CleanupKeepsLatest ==
    (dup.pc = "done" /\ dup.quiet)
        => LET S == dup.start
               E == dup.expect
           IN  /\ \A g \in Owners \X Products :
                     LET rows == NonRevoked(S, g)
                     IN  IF Cardinality(rows) > 1
                         THEN \E kept \in rows :
                                 /\ NonRevoked(E, g) = {kept}
                                 /\ E[kept] = S[kept]
                                 /\ \A j \in rows : S[j].expires_at <= S[kept].expires_at
                                 /\ (rows \ {kept}) \cap DOMAIN E = {}
                                 /\ \E r \in dup.affected_users :
                                       /\ r.discord_id = g[1] /\ r.product = g[2]
                                       /\ r.deleted_count = Cardinality(rows) - 1
                         ELSE /\ \A k \in rows : k \in DOMAIN E /\ E[k] = S[k]
                              /\ \A r \in dup.affected_users :
                                    ~(r.discord_id = g[1] /\ r.product = g[2])
               /\ \A k \in DOMAIN S : S[k].revoked = 1 => (k \in DOMAIN E /\ E[k] = S[k])
               /\ dup.total_deleted = Cardinality(DOMAIN S) - Cardinality(DOMAIN E)

\* C15 witness: an undisturbed run found three non-revoked licenses of one
\* owner and product with different expiries and reported two deletions.
C15_Witness ==
    /\ dup.pc = "done"
    /\ dup.quiet
    /\ \E r \in dup.affected_users :
          /\ r.deleted_count = 2
          /\ \E j \in DOMAIN dup.start :
                dup.start[j].expires_at < dup.start[r.kept].expires_at

\* C17: /auth/discord hands out a token only when its SELECT found a license
\* of the owner for the requested product that is not revoked, not expired
\* (expires_at not in the past) and whose hwid is null or the one presented
\* (or none is presented); the token carries that owner and product and its
\* exp is that license's expires_at as a timestamp in whole seconds.  A
\* request answered with a rejection carries no token.
C17_TokenOnlyForLiveLicense ==
    [][\A c \in AuthIds :
          (auth[c].pc \in {"idle", "done"} /\ auth'[c] # auth[c])
             => LET a == auth'[c]
                    granted == a.pc = "bind" \/ a.result = "token"
                IN  /\ granted =>
                          /\ a.key \in DOMAIN licenses
                          /\ licenses[a.key].discord_id = a.discord_id
                          /\ licenses[a.key].product = a.product
                          /\ licenses[a.key].revoked = 0
                          /\ licenses[a.key].expires_at >= now
                          /\ (a.hwid = NULL \/ licenses[a.key].hwid \in {NULL, a.hwid})
                          /\ a.expires_at = licenses[a.key].expires_at
                    /\ (a.pc = "done" /\ a.result = "token") =>
                          a.token = [did |-> a.discord_id,
                                     exp |-> licenses[a.key].expires_at \div TicksPerSecond,
                                     product |-> a.product]
                    /\ (a.result # "token") => a.token = NoToken]_vars
       /\ [][\A c \in AuthIds :
                (auth[c].pc = "bind" /\ auth'[c] # auth[c])
                   => /\ auth'[c].result = "token"
                      /\ auth'[c].token = [did |-> auth[c].discord_id,
                                           exp |-> auth[c].expires_at \div TicksPerSecond,
                                           product |-> auth[c].product]]_vars

\* C17 witness: a request presenting a fingerprint was answered with a token
\* for a license bound to that fingerprint, and another one was rejected as
\* expired.
C17_Witness ==
    /\ auth[1].pc = "done" /\ auth[1].result = "expired"
    /\ auth[2].pc = "done" /\ auth[2].result = "token"
    /\ auth[2].key \in DOMAIN licenses
    /\ licenses[auth[2].key].hwid = auth[2].hwid
    /\ auth[2].token.exp = licenses[auth[2].key].expires_at \div TicksPerSecond

\* C18: the UPDATE by which /auth/discord binds a fingerprint changes hwid
\* only on licenses whose hwid is null: no license that holds a hwid holds
\* another one afterwards.
C18_AuthBindOnlyNull ==
    [][\A c \in AuthIds :
          (auth[c].pc = "bind" /\ auth'[c].pc = "done")
             => \A k \in DOMAIN licenses :
                   licenses[k].hwid # NULL => licenses'[k].hwid = licenses[k].hwid]_vars

\* C20: under any interleaving of /link commands and OAuth callbacks with
\* the same email, a pending order is turned into a license grant (a
\* license created or extended) at most once, and a call that did not win
\* the claim of its order has granted nothing.
C20_OrderGrantsOnce ==
    /\ \A id \in DOMAIN orders : orders[id].grants <= 1
    /\ \A c \in LinkIds : (link[c].pc = "done" /\ ~link[c].won) => ~link[c].granted

\* C21: when extend_license writes to a stored license, for a positive as
\* for a negative number of days, the license is not revoked afterwards.
C21_ExtendClearsRevoked ==
    [][\A c \in ExtIds :
          (ext[c].pc = "update" /\ ext'[c].pc # "update" /\ ext[c].key \in DOMAIN licenses)
             => /\ ext[c].key \in DOMAIN licenses'
                /\ licenses'[ext[c].key].revoked = 0]_vars

\* C21 witness: a call taking days away from a revoked license has read the
\* row and is about to write.
C21_Witness ==
    \E c \in ExtIds :
        /\ ext[c].pc = "update"
        /\ ext[c].days < 0
        /\ ext[c].key \in DOMAIN licenses
        /\ licenses[ext[c].key].revoked = 1

\* C22: an exchange adds the target amount to a license only if that
\* license is, when it is written, a non-revoked license of the owner for
\* the target product with the latest expires_at among those, and it
\* changes no other license in that step; it creates a license only when
\* the owner holds no non-revoked license for the target product.
C22_ExchangeTarget ==
    [][\A d \in ExchIds :
          /\ (exch[d].pc = "tgt_write" /\ exch'[d].pc = "done"
                 /\ exch[d].key \in DOMAIN licenses)
                => /\ licenses[exch[d].key].revoked = 0
                   /\ exch[d].key \in get_license_by_user(licenses, ExchUser, exch[d].target)
                   /\ \A j \in DOMAIN licenses \ {exch[d].key} :
                         j \in DOMAIN licenses' /\ licenses'[j] = licenses[j]
          /\ (exch[d].pc = "tgt_create" /\ exch'[d].pc = "done")
                => get_license_by_user(licenses, ExchUser, exch[d].target) = {}]_vars

\* C23: the batch a poll receives holds only records that are not delivered
\* and have fewer than 5 attempts, each once, oldest first by created_at;
\* it holds all of them when they are at most limit and otherwise limit of
\* them, none left out being older than one taken.  The cycle then handles
\* the batch record by record and nothing else.
C23_PollPendingOldestFirst ==
    /\ [][(poll.pc = "idle" /\ poll'.pc = "deliver")
            => LET b == poll'.batch
                   pending == {i \in DOMAIN notifs :
                                 notifs[i].delivered = 0 /\ notifs[i].delivery_attempts < 5}
               IN  /\ \A i \in 1..Len(b) : b[i] \in pending
                   /\ \A i, j \in 1..Len(b) : i < j =>
                         /\ b[i] # b[j]
                         /\ notifs[b[i]].created_at <= notifs[b[j]].created_at
                   /\ Len(b) = (IF Cardinality(pending) <= PollLimit
                                THEN Cardinality(pending) ELSE PollLimit)
                   /\ \A x \in pending \ {b[i] : i \in 1..Len(b)} :
                         \A i \in 1..Len(b) :
                            notifs[b[i]].created_at <= notifs[x].created_at]_vars
    /\ [][(poll.pc = "deliver" /\ poll' # poll)
            => /\ poll'.batch = Tail(poll.batch)
               /\ \A i \in DOMAIN notifs \ {Head(poll.batch)} : notifs'[i] = notifs[i]]_vars

\* C23 witness: a poll took the limit of records, in order of age, while a
\* younger pending record and an exhausted one stayed behind.
C23_Witness ==
    /\ poll.pc = "deliver"
    /\ Len(poll.batch) = PollLimit
    /\ notifs[poll.batch[1]].created_at < notifs[poll.batch[PollLimit]].created_at
    /\ \E x \in DOMAIN notifs \ {poll.batch[i] : i \in 1..PollLimit} :
          notifs[x].delivery_attempts >= MaxAttempts \/ notifs[x].delivered = 0

\* C24: delivered and failed-exhausted are terminal.  A record that is
\* delivered is never again pending or in the failed query, and a record that
\* has reached the attempt cap is never again pending and never becomes
\* delivered, whatever mark calls follow.
C24_TerminalStates ==
    [][\A id \in DOMAIN notifs :
          /\ notifs[id].delivered = 1
                => /\ id \notin PendingIds(notifs')
                   /\ id \notin FailedIds(notifs')
          /\ (notifs[id].delivered = 0 /\ notifs[id].delivery_attempts >= MaxAttempts)
                => /\ id \notin PendingIds(notifs')
                   /\ notifs'[id].delivered = 0]_vars

\* C25: whenever the redemption of a storefront purchase creates a license,
\* a notification record (for that owner and key) is added to the queue in
\* the same operation.
C25_PurchaseLicenseNotified ==
    [][\A c \in RedIds :
          (red[c].pc = "create" /\ red'[c].pc # "create"
              /\ DOMAIN licenses' # DOMAIN licenses)
             => \E i \in DOMAIN notifs' \ DOMAIN notifs :
                   notifs'[i].delivered = 0]_vars

C27_StoreDownFailsClosed ==
    /\ [][/\ \A c \in ExtIds :
               (ext'[c].pc = "raised" /\ ext[c].pc # "raised")
                  => licenses' = licenses /\ ext'[c].result = 0
          /\ \A d \in ExchIds :
               (exch'[d].pc = "raised" /\ exch[d].pc # "raised") => licenses' = licenses
          /\ (exch[1].pc = "raised" /\ exch' # exch) => exch'[1].pc = "idle"
          /\ (cmd' # cmd /\ cmd'.reply = "error") => licenses' = licenses
          /\ \A c \in AuthIds :
               (auth'[c].pc = "raised" /\ auth[c].pc # "raised") => licenses' = licenses]_vars
    /\ [](\A c \in AuthIds :
            auth[c].pc = "raised"
               => auth[c].token = NoToken /\ auth[c].result # "token")
    /\ [][\A c \in AuthIds :
            (auth[c].pc = "raised" /\ auth'[c] # auth[c])
               => auth'[c].token = NoToken /\ auth'[c].result = "http_500"]_vars

\* C27 witness: the datastore failed under an exchange after the source was
\* reduced, under an auth request that was about to bind, and under /revoke.
C27_Witness ==
    /\ exch[1].pc = "raised"
    /\ licenses["SAINT-k1"].expires_at < 3
    /\ auth[1].pc = "raised" /\ auth[1].hwid = "A"
    /\ cmd.reply = "error"
    /\ ext[1].pc = "raised"

\* C28: in every reachable state a license whose pending_days is set has
\* the far-future placeholder as its expires_at, and no step (an extend, a
\* reduce, an exchange, a second redemption) changes the expires_at of a
\* stored license whose pending_days is set.
C28_PendingKeepsSentinel ==
    /\ [](\A k \in DOMAIN licenses :
            licenses[k].pending_days # 0 => licenses[k].expires_at = Sentinel)
    /\ [][\A k \in DOMAIN licenses \cap DOMAIN licenses' :
            (licenses[k].pending_days # 0 /\ licenses'[k].pending_days # 0)
               => licenses'[k].expires_at = licenses[k].expires_at]_vars

\* C29: a /reset-hwid that resets (by key, or by owner for every license of
\* that owner) leaves hwid null, and a verification that then reads the
\* license with a null hwid and presents a fingerprint, whichever it is, is
\* answered valid and binds that fingerprint.  The verification is one that
\* passes the checks made before the binding (store reachable, version
\* allowed, product matches, not revoked, not expired).
C29_ResetThenRebind ==
    /\ [][(cmd' # cmd /\ cmd'.name = "reset-hwid" /\ cmd'.reply = "reset")
            => \A k \in DOMAIN licenses' :
                  (k = cmd'.key \/ licenses'[k].discord_id = cmd'.key)
                     => licenses'[k].hwid = NULL]_vars
    /\ [][\A c \in VerIds :
            (/\ ver[c].pc \in {"idle", "done"} /\ ver'[c] # ver[c] /\ ver'[c].db = "up"
             /\ ver'[c].key \in DOMAIN licenses
             /\ ver'[c].product \in {NULL, licenses[ver'[c].key].product}
             /\ (ver'[c].product = NULL
                   \/ check_version_allowed(ver'[c].product, ver'[c].version))
             /\ licenses[ver'[c].key].revoked = 0
             /\ licenses[ver'[c].key].expires_at >= now
             /\ ver'[c].hwid # NULL
             /\ licenses[ver'[c].key].hwid = NULL)
               => ver'[c].pc = "bind"]_vars
    /\ [][\A c \in VerIds :
            (ver[c].pc = "bind" /\ ver'[c].pc = "done" /\ ver'[c].db = "up")
               => /\ ver'[c].result = "activated"
                  /\ ver[c].key \in DOMAIN licenses'
                        => licenses'[ver[c].key].hwid = ver[c].hwid]_vars

\* C29 witness: a license bound to one fingerprint was reset by key, and a
\* verification presenting another fingerprint was activated and bound it.
C29_Witness ==
    /\ cmd.name = "reset-hwid" /\ cmd.reply = "reset" /\ cmd.key \in DOMAIN licenses
    /\ cmd.prev # NULL
    /\ licenses[cmd.key].hwid \notin {NULL, cmd.prev}
    /\ \E c \in VerIds :
          /\ ver[c].pc = "done" /\ ver[c].result = "activated"
          /\ ver[c].key = cmd.key /\ ver[c].hwid = licenses[cmd.key].hwid

\* C30: a failure while the expiry sweep processes one record never ends the
\* cycle early: the cycle ends only with the last record of its batch, and
\* that record has been processed (its row, if still stored, carries
\* expiry_notified).
C30_FailureKeepsCycle ==
    [][(sweep.pc # "idle" /\ sweep'.pc = "idle")
          => /\ Len(sweep.batch) = 1
             /\ LET k == Head(sweep.batch).license_key IN
                   k \in DOMAIN licenses' => licenses'[k].expiry_notified = 1]_vars

\* C31: extend_license calls on one key are not serialized.  A call computes
\* its new expiry from the expires_at stored when it reads (max(stored, now)
\* + d for d > 0, stored + d for d < 0), and its UPDATE stores that value
\* whatever was written to the row since the read: the last write wins, and
\* the stored value is always one call's delta applied to an expiry that
\* was stored when that call read.
C31_LastWriteWins ==
    [][\A c \in ExtIds :
          /\ (ext[c].pc # "update" /\ ext'[c].pc = "update")
                => /\ ext'[c].key \in DOMAIN licenses
                   /\ LET stored == licenses[ext'[c].key].expires_at
                          base == IF ext'[c].days > 0 /\ stored < now THEN now ELSE stored
                      IN  ext'[c].result = base + ext'[c].days
          /\ (ext[c].pc = "update" /\ ext'[c].pc # "update" /\ ext[c].key \in DOMAIN licenses)
                => /\ licenses'[ext[c].key].expires_at = ext[c].result
                   /\ \A o \in ExtIds \ {c} : ext'[o] = ext[o]]_vars

\* C31 witness: two calls with different deltas have read the same stored
\* expiry of one key and both are about to write: whichever writes last
\* decides the expiry, and the other delta is lost.
C31_Witness ==
    /\ ext[1].pc = "update" /\ ext[2].pc = "update"
    /\ ext[1].key = ext[2].key /\ ext[1].key \in DOMAIN licenses
    /\ ext[1].days > 0 /\ ext[2].days > 0 /\ ext[1].days # ext[2].days
    /\ licenses[ext[1].key].expires_at >= now
    /\ ext[1].result = licenses[ext[1].key].expires_at + ext[1].days
    /\ ext[2].result = licenses[ext[2].key].expires_at + ext[2].days

\* C32: for every ordered pair (referrer, referred) the referred user's
\* license is extended for that pair at most once and at most one row of the
\* pair is stored, in every interleaving of /referral commands; an extension
\* made for a pair has its row recorded once the command is done; rows are
\* never changed or removed.
C32_ReferralOncePerPair ==
    /\ [](\A p \in RefUsers \X RefUsers :
            /\ awards.pair[p] <= 1
            /\ Cardinality({r \in referrals : r.referrer_id = p[1] /\ r.referred_id = p[2]}) <= 1
            /\ ((\A c \in RefIds : ref[c].pc = "idle") /\ awards.pair[p] >= 1)
                  => \E r \in referrals : r.referrer_id = p[1] /\ r.referred_id = p[2])
    /\ [][referrals \subseteq referrals']_vars

\* C40: in every interleaving of /referral commands a user receives at most
\* MAX_REFERRALS awards for the product, the n-th award a user receives is
\* 7 days for n = 1 and 2 days for n = 2..5, and the days a user has earned
\* never exceed 15.
C40_ReferralCap ==
    /\ [](\A u \in RefUsers : awards.n[u] <= 5 /\ awards.days[u] <= 15)
    /\ [][\A u \in RefUsers :
            awards'.n[u] # awards.n[u]
               => /\ awards'.n[u] = awards.n[u] + 1
                  /\ awards'.days[u] - awards.days[u]
                        = (IF awards'.n[u] = 1 THEN 7 ELSE 2)]_vars

\* C33: for every license and every d > 0, extend_license(key, -d) followed
\* at once by extend_license(key, +d) leaves expires_at as it was before the
\* two calls, also when expires_at - d lies before now.
C33_ReduceThenExtendRestores ==
    [][(/\ cmd.name = "extend" /\ cmd'.name = "extend" /\ cmd'.seq # cmd.seq
        /\ cmd.key \in DOMAIN licenses /\ cmd'.key = cmd.key
        /\ cmd.days < 0 /\ cmd'.days = -cmd.days)
          => licenses'[cmd.key].expires_at = cmd.prev]_vars

\* C34: every token generate_license_key returns splits on "-" into exactly
\* three parts, and verify_license_key never answers an unchanged issued
\* token with a format error.
C34_IssuedTokenThreeParts ==
    /\ tok.pc \in {"issued", "verified"} => Len(split(tok.key, Dash)) = 3
    /\ (tok.pc = "verified" /\ tok.presented = tok.key)
           => tok.result # "invalid_format"

\* C35: the time an exchange takes out of a license created by redemption
\* (pending_days set, expires_at the placeholder) is at most its
\* pending_days.
C35_ExchangeWithinPendingDays ==
    [][\A d \in ExchIds :
          (/\ exch[d].pc = "src_write" /\ exch'[d].pc # "src_write"
           /\ exch[d].source_key \in DOMAIN licenses
           /\ licenses[exch[d].source_key].pending_days # 0)
             => exch[d].source_seconds <= licenses[exch[d].source_key].pending_days]_vars

\* C36: once a /redeem command has returned, the purchase it marked
\* redeemed is one for which a license was created or extended: a purchase
\* whose redemption did not create or extend a license is left unredeemed.
C36_RedeemedOnlyIfGranted ==
    \A i \in DOMAIN purchases :
        (/\ purchases[i].redeemed = 1
         /\ \A c \in RedIds : red[c].pc = "idle" \/ red[c].purchase # i)
            => purchases[i].granted >= 1

\* C37: every time a non-revoked license passes its expires_at, the first
\* time and again after a renewal by extend_license, the sweep eventually
\* selects it: from every state in which the license is unexpired, either
\* the sweep selects it later or it is never expired and non-revoked again.
C37_EveryExpirySelected ==
    \A k \in Keys :
        LET Expired == /\ k \in DOMAIN licenses /\ licenses[k].revoked = 0
                       /\ licenses[k].expires_at <= now
            Live == /\ k \in DOMAIN licenses /\ licenses[k].revoked = 0
                    /\ licenses[k].expires_at > now
            Selected == /\ sweep.pc # "idle"
                        /\ \E i \in 1..Len(sweep.batch) : sweep.batch[i].license_key = k
        IN  [](Live => <>(Selected \/ []~Expired))

\* C38: after any sequence of /generate, /redeem, /link and /revoke
\* commands, each run to its end, every (owner, product) has at most one
\* non-revoked license.
C38_OneLiveLicensePerOwner ==
    \A u \in Owners, p \in Products :
        Cardinality({k \in DOMAIN licenses :
                        /\ licenses[k].discord_id = u /\ licenses[k].product = p
                        /\ licenses[k].revoked = 0}) <= 1

\* C39: the expiry test is the same everywhere, the instant now = expires_at
\* included: for a non-revoked license the sweep has not marked, /verify and
\* /auth/discord treat it as unexpired exactly when the statistics count it
\* active, and exactly when the sweep does not select it.
C39_SameExpiryTest ==
    \A k \in DOMAIN licenses :
        (licenses[k].revoked = 0 /\ licenses[k].expiry_notified = 0
            /\ licenses[k].product \in AuthProducts)
        => LET row == [j \in {k} |-> licenses[j]]
               verifyUnexpired ==
                   VerifyOutcome(row, now, k, licenses[k].hwid, NULL, 2) # "expired"
               authUnexpired ==
                   AuthOutcome(row, now, k, licenses[k].hwid, licenses[k].product, 2)
                       # "expired"
               countedActive == CountActive(row, NULL, now) = 1
               selected == k \in get_newly_expired_licenses(row, now)
           IN  /\ verifyUnexpired <=> countedActive
               /\ authUnexpired <=> countedActive
               /\ countedActive <=> ~selected

====
